---- MODULE Spec2Model ----
(***************************************************************************)
(* Static route discovery of nestjs-routes (src/src/route-scanner.ts):     *)
(* the command (listRoutes) with its loader (loadModule) and its renderer  *)
(* (displayRoutes), the module graph walk                                  *)
(* (extractRoutesFromModule / processModule), the route extractor          *)
(* (extractControllerRoutes) and the path normalizer (buildRoutePath).     *)
(*                                                                         *)
(* A JavaScript string is a sequence of one-character strings, so that     *)
(* joining, slash collapsing and stripping are computed character by       *)
(* character.  An optional string argument is a record                     *)
(* [present, s]: present = FALSE is `undefined`.                           *)
(***************************************************************************)
EXTENDS Integers, Sequences, FiniteSets, TLC

(***************************************************************************)
(* Bounds of the exploration.                                              *)
(***************************************************************************)
\* longest segment string drawn for the path normalizer
MaxSegLen == 2

\* import entries declared over the whole module graph of one run
MaxEntries == 4

\* of these, the entries that are not a plain module class
MaxIrregular == 2

\* modules one of whose metadata reads throws
MaxFaults == 1

\* members declared by a controller drawn for the route extractor
MaxMembers == 3

\* largest numeric verb code drawn for the route extractor
MaxVerbCode == 11

\* import entries declared over the module graph of a listRoutes run
MaxCliEntries == 1

\* import entries declared over the module graph discovery is called on more
\* than once
MaxRerunEntries == 3

\* calls of discovery made in sequence on one entry module
MaxRuns == 2

(***************************************************************************)
(* Strings.                                                                *)
(***************************************************************************)
Slash == "/"

Undefined == [present |-> FALSE, s |-> <<>>]

Lit(str) == [present |-> TRUE, s |-> str]

\* the words of the repository's tests and test application
S_api == <<"a", "p", "i">>
S_v1 == <<"v", "1">>
S_users == <<"u", "s", "e", "r", "s">>
S_profile == <<"p", "r", "o", "f", "i", "l", "e">>
S_health == <<"h", "e", "a", "l", "t", "h">>
S_test == <<"t", "e", "s", "t">>

\* the strings over a set of characters, up to a length
RECURSIVE StringsUpTo(_, _)
StringsUpTo(chars, n) ==
  IF n = 0 THEN {<<>>}
  ELSE LET shorter == StringsUpTo(chars, n - 1)
       IN  shorter \cup {Append(w, c) : w \in shorter, c \in chars}

\* s begins with the string p
StartsWith(s, p) == Len(s) >= Len(p) /\ SubSeq(s, 1, Len(p)) = p

\* s contains two consecutive slashes
HasDoubleSlash(s) == \E i \in 1..(Len(s) - 1) : s[i] = Slash /\ s[i + 1] = Slash

(***************************************************************************)
(* buildRoutePath, route-scanner.ts:469-473.                               *)
(***************************************************************************)
\* Boolean(x) of an optional string: undefined and '' are falsy
Truthy(seg) == seg.present /\ seg.s # <<>>

\* [prefix, basePath, routePath].filter(Boolean)
FilterBoolean(segs) == SelectSeq(segs, Truthy)

\* Array.prototype.join('/'): undefined elements are joined as ''
RECURSIVE JoinSlash(_)
JoinSlash(parts) ==
  IF parts = <<>> THEN <<>>
  ELSE IF Len(parts) = 1 THEN (IF parts[1].present THEN parts[1].s ELSE <<>>)
  ELSE (IF parts[1].present THEN parts[1].s ELSE <<>>) \o <<Slash>> \o JoinSlash(Tail(parts))

\* .replace(/\/+/g, '/'): every maximal run of slashes becomes one slash
RECURSIVE CollapseSlashes(_)
CollapseSlashes(s) ==
  IF Len(s) <= 1 THEN s
  ELSE IF s[1] = Slash /\ s[2] = Slash THEN CollapseSlashes(Tail(s))
  ELSE <<s[1]>> \o CollapseSlashes(Tail(s))

\* the alternative ^\/+ : the leading run of slashes is removed
RECURSIVE StripLeadingSlashes(_)
StripLeadingSlashes(s) ==
  IF s # <<>> /\ s[1] = Slash THEN StripLeadingSlashes(Tail(s)) ELSE s

\* the alternative \/+$ : the trailing run of slashes is removed
RECURSIVE StripTrailingSlashes(_)
StripTrailingSlashes(s) ==
  IF s # <<>> /\ s[Len(s)] = Slash
  THEN StripTrailingSlashes(SubSeq(s, 1, Len(s) - 1))
  ELSE s

\* .replace(/^\/+|\/+$/g, '')
StripSlashes(s) == StripTrailingSlashes(StripLeadingSlashes(s))

\* the first replace left out: runs of slashes are not collapsed
buildRoutePathNoCollapse(prefix, basePath, routePath) ==
  LET parts == FilterBoolean(<<prefix, basePath, routePath>>)
  IN  <<Slash>> \o StripSlashes(JoinSlash(parts))

\* the second replace written as /\/+$/: only trailing slashes are stripped
buildRoutePathKeepLeading(prefix, basePath, routePath) ==
  LET parts == FilterBoolean(<<prefix, basePath, routePath>>)
  IN  <<Slash>> \o StripTrailingSlashes(CollapseSlashes(JoinSlash(parts)))

\* the segments concatenated as `${prefix}/${basePath}/${routePath}`, no filter
TemplateText(seg) ==
  IF seg.present THEN seg.s ELSE <<"u", "n", "d", "e", "f", "i", "n", "e", "d">>

buildRoutePathTemplate(prefix, basePath, routePath) ==
  <<Slash>> \o StripSlashes(CollapseSlashes(
      TemplateText(prefix) \o <<Slash>> \o TemplateText(basePath)
        \o <<Slash>> \o TemplateText(routePath)))

buildRoutePath(prefix, basePath, routePath) ==
  LET parts == FilterBoolean(<<prefix, basePath, routePath>>)
      fullPath == <<Slash>> \o StripSlashes(CollapseSlashes(JoinSlash(parts)))
  IN  IF fullPath = <<>> THEN <<Slash>> ELSE fullPath

(***************************************************************************)
(* extractControllerRoutes, route-scanner.ts:423-467.                      *)
(*                                                                         *)
(* A controller descriptor is a record: isClass (typeof controller is      *)
(* 'function'), hasPrototype, name (controller.name), basePath (the 'path' *)
(* metadata of the class, Undefined when none is attached) and members,    *)
(* the own property names of the prototype in declaration order.  A member *)
(* has a name, callable (its descriptor's value is a function), path and   *)
(* verb (its 'path' and 'method' metadata) and throws (reading its         *)
(* metadata raises).  inherited holds the members of a base class, which   *)
(* are not own properties of the prototype; metadataThrows says that       *)
(* reading the metadata of the class itself raises.                        *)
(***************************************************************************)
S_GET == <<"G", "E", "T">>
S_POST == <<"P", "O", "S", "T">>
S_PUT == <<"P", "U", "T">>
S_DELETE == <<"D", "E", "L", "E", "T", "E">>
S_PATCH == <<"P", "A", "T", "C", "H">>
S_OPTIONS == <<"O", "P", "T", "I", "O", "N", "S">>
S_HEAD == <<"H", "E", "A", "D">>
S_ALL == <<"A", "L", "L">>
S_constructor == <<"c", "o", "n", "s", "t", "r", "u", "c", "t", "o", "r">>

\* REQUEST_METHOD_MAP: the keys 0..7 as positions 1..8
REQUEST_METHOD_MAP ==
  <<S_GET, S_POST, S_PUT, S_DELETE, S_PATCH, S_OPTIONS, S_HEAD, S_ALL>>

DigitChars == <<"0", "1", "2", "3", "4", "5", "6", "7", "8", "9">>

\* Number.prototype.toString() of a natural number
RECURSIVE NumberToString(_)
NumberToString(n) ==
  IF n < 10 THEN <<DigitChars[n + 1]>>
  ELSE NumberToString(n \div 10) \o <<DigitChars[(n % 10) + 1]>>

LowerChars ==
  <<"a", "b", "c", "d", "e", "f", "g", "h", "i", "j", "k", "l", "m",
    "n", "o", "p", "q", "r", "s", "t", "u", "v", "w", "x", "y", "z">>

UpperChars ==
  <<"A", "B", "C", "D", "E", "F", "G", "H", "I", "J", "K", "L", "M",
    "N", "O", "P", "Q", "R", "S", "T", "U", "V", "W", "X", "Y", "Z">>

\* String.prototype.toUpperCase()
ToUpperCase(s) ==
  [i \in 1..Len(s) |->
     IF \E j \in 1..Len(LowerChars) : LowerChars[j] = s[i]
     THEN UpperChars[CHOOSE j \in 1..Len(LowerChars) : LowerChars[j] = s[i]]
     ELSE s[i]]

\* the 'method' metadata of a member: none, a number or a string
NoVerb == [present |-> FALSE, kind |-> "number", code |-> 0, text |-> <<>>]

Verb(code) == [present |-> TRUE, kind |-> "number", code |-> code, text |-> <<>>]

VerbText(str) == [present |-> TRUE, kind |-> "string", code |-> 0, text |-> str]

\* httpMethod.toString(), which is also the property key httpMethod is
\* looked up under
VerbToString(httpMethod) ==
  IF httpMethod.kind = "number" THEN NumberToString(httpMethod.code)
  ELSE httpMethod.text

S_toString == <<"t", "o", "S", "t", "r", "i", "n", "g">>

S_valueOf == <<"v", "a", "l", "u", "e", "O", "f">>

S_proto == <<"_", "_", "p", "r", "o", "t", "o", "_", "_">>

\* the names REQUEST_METHOD_MAP, an ordinary object, inherits from
\* Object.prototype
ObjectPrototypeKeys ==
  { S_constructor, S_toString, S_valueOf, S_proto,
    <<"h", "a", "s", "O", "w", "n", "P", "r", "o", "p", "e", "r", "t", "y">>,
    <<"i", "s", "P", "r", "o", "t", "o", "t", "y", "p", "e", "O", "f">>,
    <<"p", "r", "o", "p", "e", "r", "t", "y", "I", "s", "E", "n", "u", "m", "e", "r", "a", "b", "l", "e">>,
    <<"t", "o", "L", "o", "c", "a", "l", "e", "S", "t", "r", "i", "n", "g">>,
    <<"_", "_", "d", "e", "f", "i", "n", "e", "G", "e", "t", "t", "e", "r", "_", "_">>,
    <<"_", "_", "d", "e", "f", "i", "n", "e", "S", "e", "t", "t", "e", "r", "_", "_">>,
    <<"_", "_", "l", "o", "o", "k", "u", "p", "G", "e", "t", "t", "e", "r", "_", "_">>,
    <<"_", "_", "l", "o", "o", "k", "u", "p", "S", "e", "t", "t", "e", "r", "_", "_">> }

\* a value that is no string: the member of Object.prototype named key, a
\* function, or for __proto__ the object Object.prototype itself.  Its first
\* element is no character, so it equals no string.
InheritedMember(key) ==
  IF key = S_proto THEN <<"[object Object.prototype]">>
  ELSE <<"[function Object.prototype.]">> \o key

\* typeof value === 'string'
IsString(value) ==
  value = <<>> \/ value[1] \notin {"[object Object.prototype]", "[function Object.prototype.]"}

\* typeof value === 'function'
IsFunction(value) == value # <<>> /\ value[1] = "[function Object.prototype.]"

\* REQUEST_METHOD_MAP[httpMethod]: the property of the table under the key
\* httpMethod is converted to, own or inherited; found is FALSE for undefined
TableLookup(key) ==
  IF \E k \in 1..Len(REQUEST_METHOD_MAP) : NumberToString(k - 1) = key
  THEN [found |-> TRUE,
        value |-> REQUEST_METHOD_MAP[CHOOSE k \in 1..Len(REQUEST_METHOD_MAP) :
                                       NumberToString(k - 1) = key]]
  ELSE IF key \in ObjectPrototypeKeys
  THEN [found |-> TRUE, value |-> InheritedMember(key)]
  ELSE [found |-> FALSE, value |-> <<>>]

\* the fallback left out: a verb outside the table gives the empty string
MethodNameTableOnly(httpMethod) ==
  LET entry == TableLookup(VerbToString(httpMethod))
  IN  IF entry.found THEN entry.value ELSE <<>>

\* REQUEST_METHOD_MAP[httpMethod] || httpMethod.toString().toUpperCase():
\* every value the lookup finds is truthy
MethodName(httpMethod) ==
  LET entry == TableLookup(VerbToString(httpMethod))
  IN  IF entry.found THEN entry.value ELSE ToUpperCase(VerbToString(httpMethod))

\* the digit a character denotes
DigitOf(char) == CHOOSE d \in 0..9 : DigitChars[d + 1] = char

\* decimal digits, no leading zero: the string form of a natural number
IsNumeral(name) ==
  /\ name # <<>>
  /\ \A i \in 1..Len(name) : \E d \in 1..Len(DigitChars) : DigitChars[d] = name[i]
  /\ Len(name) > 1 => name[1] # "0"

\* of two numerals, a denotes the smaller number: the shorter one, or of two
\* of the same length the one with the smaller digit where they first differ
NumeralBefore(a, b) ==
  \/ Len(a) < Len(b)
  \/ /\ Len(a) = Len(b)
     /\ \E i \in 1..Len(a) :
          /\ \A k \in 1..(i - 1) : a[k] = b[k]
          /\ DigitOf(a[i]) < DigitOf(b[i])

\* the greatest array index, 2^32 - 2
MaxArrayIndex == <<"4", "2", "9", "4", "9", "6", "7", "2", "9", "4">>

\* a property name that is an array index: the string form of a natural
\* number up to 2^32 - 2
IsArrayIndex(name) == IsNumeral(name) /\ ~NumeralBefore(MaxArrayIndex, name)

\* members in ascending order of their array index names
RECURSIVE SortByIndex(_)
SortByIndex(members) ==
  IF members = <<>> THEN <<>>
  ELSE LET least == CHOOSE i \in 1..Len(members) :
                      \A j \in 1..Len(members) :
                        ~NumeralBefore(members[j].name, members[i].name)
       IN  <<members[least]>>
           \o SortByIndex(SubSeq(members, 1, least - 1)
                          \o SubSeq(members, least + 1, Len(members)))

HasIndexName(member) == IsArrayIndex(member.name)

HasOtherName(member) == ~IsArrayIndex(member.name)

\* the properties taken in the order they were declared
OwnPropertyNamesAsDeclared(declared) == declared

\* Object.getOwnPropertyNames(prototype): the array index names in ascending
\* order, then the other names in the order the properties were created
OwnPropertyNames(declared) ==
  SortByIndex(SelectSeq(declared, HasIndexName)) \o SelectSeq(declared, HasOtherName)

\* the filter of Object.getOwnPropertyNames(prototype)
IsMethodName(member) == member.name # S_constructor /\ member.callable

\* the base path never read
BasePathOfIgnored(controller) == Lit(<<>>)

\* Reflect.getMetadata(PATH_METADATA, controller) || ''
BasePathOf(controller) ==
  IF Truthy(controller.basePath) THEN controller.basePath ELSE Lit(<<>>)

\* the member name alone
HandlerLabelMemberOnly(ctrlName, methodName) == methodName

\* `${ctrlName}.${methodName}`
HandlerLabel(ctrlName, methodName) == ctrlName \o <<".">> \o methodName

\* a record for every member that declares a path
IsRouteByPathOnly(member) == member.path.present

\* routePath !== undefined && httpMethod !== undefined
IsRoute(member) == member.path.present /\ member.verb.present

\* the catch block leaves the loop
AfterMemberErrorStops(rest) == <<>>

\* lines 460-463: the catch block continues with the next member
AfterMemberError(rest) == rest

\* the body of the loop over methodNames, for the members from position i on
RECURSIVE RoutesFrom(_, _, _, _)
RoutesFrom(controller, ctrlPrefix, methodNames, i) ==
  IF i > Len(methodNames) THEN <<>>
  ELSE LET member == methodNames[i]
           rest == RoutesFrom(controller, ctrlPrefix, methodNames, i + 1)
       IN  IF member.throws THEN AfterMemberError(rest)
           ELSE IF IsRoute(member)
           THEN << [method |-> MethodName(member.verb),
                    path |-> buildRoutePath(ctrlPrefix, BasePathOf(controller),
                                            member.path),
                    handler |-> HandlerLabel(controller.name, member.name)] >> \o rest
           ELSE rest

\* every descriptor taken for a class with a prototype
IsControllerClassAlways(controller) == TRUE

\* lines 426-428 and 434-435: controller is a function and has a prototype
IsControllerClass(controller) == controller.isClass /\ controller.hasPrototype

extractControllerRoutes(controller, ctrlPrefix) ==
  IF ~IsControllerClass(controller) THEN <<>>
  ELSE RoutesFrom(controller, ctrlPrefix,
                  SelectSeq(OwnPropertyNames(controller.members), IsMethodName), 1)

(***************************************************************************)
(* The application under discovery.  The controllers are the two of the    *)
(* repository's test application (TestController, UsersController) and,    *)
(* for the modules imported below it, a controller per module, beside      *)
(* which some modules list an entry that is no class, a class without      *)
(* endpoints, or a class named __proto__ or by a numeral; which modules    *)
(* import which is chosen freely as the walk reads it.                     *)
(***************************************************************************)
Method(name, path, code) ==
  [name |-> name, callable |-> TRUE, path |-> path, verb |-> Verb(code), throws |-> FALSE]

PlainMethod(name) ==
  [name |-> name, callable |-> TRUE, path |-> Undefined, verb |-> NoVerb, throws |-> FALSE]

Constructor == PlainMethod(S_constructor)

Class(name, basePath, members) ==
  [isClass |-> TRUE, hasPrototype |-> TRUE, name |-> name, basePath |-> basePath,
   members |-> <<Constructor>> \o members, inherited |-> <<>>,
   metadataThrows |-> FALSE]

\* a controllers entry that is not a function (a provider token, an object)
NotAClass ==
  [isClass |-> FALSE, hasPrototype |-> FALSE, name |-> <<>>, basePath |-> Undefined,
   members |-> <<>>, inherited |-> <<>>, metadataThrows |-> FALSE]

S_id == <<":", "i", "d">>

\* the repository's test.controller.ts: @Controller(), @Get(), @Get('health'), @Post('test')
TestController ==
  Class(<<"T", "e", "s", "t", "C", "o", "n", "t", "r", "o", "l", "l", "e", "r">>,
        Lit(<<Slash>>),
        << Method(<<"g", "e", "t", "R", "o", "o", "t">>, Lit(<<Slash>>), 0),
           Method(<<"g", "e", "t", "H", "e", "a", "l", "t", "h">>, Lit(S_health), 0),
           Method(<<"c", "r", "e", "a", "t", "e", "T", "e", "s", "t">>, Lit(S_test), 1) >>)

\* the repository's users.controller.ts: @Controller('users') with five endpoints
UsersController ==
  Class(<<"U", "s", "e", "r", "s", "C", "o", "n", "t", "r", "o", "l", "l", "e", "r">>,
        Lit(S_users),
        << Method(<<"f", "i", "n", "d", "A", "l", "l">>, Lit(<<Slash>>), 0),
           Method(<<"c", "r", "e", "a", "t", "e">>, Lit(<<Slash>>), 1),
           Method(<<"f", "i", "n", "d", "O", "n", "e">>, Lit(S_id), 0),
           Method(<<"u", "p", "d", "a", "t", "e">>, Lit(S_id), 2),
           Method(<<"r", "e", "m", "o", "v", "e">>, Lit(S_id), 3) >>)

\* a class listed among the controllers that declares no endpoint
PlainProvider ==
  Class(<<"P", "l", "a", "i", "n">>, Undefined, << PlainMethod(<<"r", "u", "n">>) >>)

\* the controller of the imported module m: one endpoint and one helper method
FeatureController(m) ==
  Class(<<"F", "e", "a", "t", "u", "r", "e">> \o NumberToString(m),
        Lit(<<"m">> \o NumberToString(m)),
        << PlainMethod(<<"h", "e", "l", "p">>),
           Method(<<"l", "i", "s", "t">>, Lit(<<"l", "i", "s", "t">>), 0) >>)

\* a second class named UsersController, with routes of its own
UsersControllerV2 ==
  Class(UsersController.name,
        Lit(S_v1 \o <<Slash>> \o S_users),
        << Method(<<"s", "e", "a", "r", "c", "h">>, Lit(<<"s", "e", "a", "r", "c", "h">>), 0),
           Method(<<"c", "r", "e", "a", "t", "e">>, Lit(<<>>), 1) >>)

\* a third class named UsersController, which declares no endpoint
UsersControllerStub ==
  Class(UsersController.name, Lit(S_users), << PlainMethod(<<"r", "u", "n">>) >>)

\* a controller between whose two endpoints stands a member the metadata
\* reads of which throw
AdminController ==
  Class(<<"A", "d", "m", "i", "n", "C", "o", "n", "t", "r", "o", "l", "l", "e", "r">>,
        Lit(<<"a", "d", "m", "i", "n">>),
        << Method(<<"s", "t", "a", "t", "s">>, Lit(<<"s", "t", "a", "t", "s">>), 0),
           [name |-> <<"b", "r", "o", "k", "e", "n">>, callable |-> TRUE,
            path |-> Lit(S_test), verb |-> Verb(1), throws |-> TRUE],
           Method(<<"a", "u", "d", "i", "t">>, Lit(<<>>), 1) >>)

\* a controller one of whose endpoints declares the verb 'constructor', a
\* string that names a member of Object.prototype
LegacyController ==
  Class(<<"L", "e", "g", "a", "c", "y">>,
        Lit(<<"l", "e", "g", "a", "c", "y">>),
        << Method(<<"l", "i", "s", "t">>, Lit(<<"l", "i", "s", "t">>), 0),
           [name |-> <<"a", "l", "l">>, callable |-> TRUE, path |-> Lit(<<"a", "l", "l">>),
            verb |-> VerbText(S_constructor), throws |-> FALSE] >>)

\* a controller whose class is named __proto__
ProtoNamedController ==
  Class(S_proto, Lit(<<"p">>),
        << Method(<<"l", "i", "s", "t">>, Lit(<<"l", "i", "s", "t">>), 0) >>)

\* a second class named __proto__, with two endpoints
ProtoNamedControllerV2 ==
  Class(S_proto, Lit(<<"p", "2">>),
        << Method(<<"l", "i", "s", "t">>, Lit(<<"l", "i", "s", "t">>), 0),
           Method(<<"c", "r", "e", "a", "t", "e">>, Lit(<<>>), 1) >>)

\* a controller whose class is named by the numeral of n, as the class of
\* ({ 7: class {} })[7] is
NumberedController(n) ==
  Class(NumberToString(n), Lit(<<"n">> \o NumberToString(n)),
        << Method(<<"l", "i", "s", "t">>, Lit(<<"l", "i", "s", "t">>), 0) >>)

\* the applications discovery is run on: the repository's test application,
\* one with distinct controller names among which are __proto__ and a
\* numeral, one in which three modules declare a controller of the same
\* name and others controllers named by numerals and two named __proto__,
\* and one
\* whose entry module lists a controller with a malformed member and whose
\* other modules declare a verb that names a member of Object.prototype
Apps == {"test", "keys", "clash", "malformed"}

\* the 'controllers' metadata of module m of the test application
TestAppControllersOf(m) ==
  IF m = 1 THEN <<TestController, UsersController>>
  ELSE IF m % 2 = 0 THEN <<FeatureController(m)>>
  ELSE IF m = 3 THEN <<NotAClass, FeatureController(m)>>
  ELSE <<PlainProvider, FeatureController(m)>>

\* the 'controllers' metadata of module m of the application with the
\* controller named __proto__
KeysAppControllersOf(m) ==
  IF m = 1 THEN <<TestController, UsersController>>
  ELSE IF m = 2 THEN <<FeatureController(m), ProtoNamedController>>
  ELSE IF m = 3 THEN <<NumberedController(7)>>
  ELSE <<PlainProvider, FeatureController(m)>>

\* the 'controllers' metadata of module m of the application with the
\* malformed member
MalformedAppControllersOf(m) ==
  IF m = 1 THEN <<UsersController, AdminController, TestController>>
  ELSE <<LegacyController>>

\* the 'controllers' metadata of module m of the application with name clashes
ClashAppControllersOf(m) ==
  IF m = 1 THEN <<TestController, UsersController>>
  ELSE IF m = 2 THEN <<UsersControllerV2>>
  ELSE IF m = 3 THEN <<NotAClass, UsersControllerStub>>
  ELSE IF m = 4 THEN <<PlainProvider, FeatureController(m), NumberedController(7)>>
  ELSE IF m = 5
  THEN <<ProtoNamedController, NumberedController(10), ProtoNamedControllerV2>>
  ELSE <<PlainProvider, FeatureController(m)>>

(***************************************************************************)
(* State.                                                                  *)
(***************************************************************************)
VARIABLES
  segs,              \* the three arguments of one buildRoutePath call
  built,             \* its result, or Undefined before the call
  phase,             \* "idle", "walking" (inside extractRoutesFromModule),
                     \* "returned", or "threw" (an error left the call)
  prefix,            \* the prefix argument of the run
  stack,             \* the active processModule calls, innermost last
  processedModules,  \* the Set processedModules of the run
  routeMap,          \* the RouteMap of the run: its entries in key order
  routeProto,        \* the prototype of the RouteMap object
  loaded,            \* the modules whose metadata the run has asked for
  importsOf,         \* module -> the import entries it declares
  faultOf,           \* module -> the metadata read of it that throws, if any
  ctrlReads,         \* module -> number of reads of its 'controllers' metadata
  impReads,          \* module -> number of reads of its 'imports' metadata
  calls,             \* <<importing module, module>> of every recursive call made
  order,             \* the modules in the order they were marked processed
  caught,            \* the modules whose processing ended in the catch block
  steps,             \* the number of steps the run has taken
  app,               \* the application under discovery: which controllers
                     \* its modules declare
  ctrl,              \* the controller argument of one extractControllerRoutes call
  extracted,         \* its result: [done, routes]
  env,               \* what a listRoutes call finds: the file, the environment
                     \* variables, the loaded exports, the json option
  cli,               \* the listRoutes call: its position, what it has printed
                     \* and how it ended
  runs               \* the discovery calls still to be made after this one,
                     \* and what the earlier calls returned

pathVars == <<segs, built>>

walkVars == <<phase, prefix, stack, processedModules, routeMap, routeProto, loaded, importsOf,
              faultOf, ctrlReads, impReads, calls, order, caught, steps>>

extractVars == <<ctrl, extracted>>

cliVars == <<env, cli>>

vars == <<segs, built, phase, prefix, stack, processedModules, routeMap, routeProto, loaded,
          importsOf, faultOf, ctrlReads, impReads, calls, order, caught, steps,
          app, ctrl, extracted, env, cli, runs>>

\* the 'controllers' metadata of module m
ControllersOf(m) ==
  IF app = "clash" THEN ClashAppControllersOf(m)
  ELSE IF app = "keys" THEN KeysAppControllersOf(m)
  ELSE IF app = "malformed" THEN MalformedAppControllersOf(m)
  ELSE TestAppControllersOf(m)

(***************************************************************************)
(* The module graph.  Modules are numbered in the order in which the walk  *)
(* first meets them, the entry module being 1: a module descriptor is an   *)
(* opaque reference, so the numbering loses no graph.                      *)
(***************************************************************************)
Modules == 1..(MaxEntries + 1)

EntryModule == 1

\* the call depth at which the model stops recursing; a walk that visits a
\* module once never reaches it
MaxDepth == MaxEntries + 2

\* an entry of the 'imports' metadata: a module class, a dynamic module
\* { module: <class>, ...configuration }, null, or an object whose module
\* field is no function
ClassRef(m) == [kind |-> "class", module |-> m, config |-> 0]

DynamicRef(m, c) == [kind |-> "dynamic", module |-> m, config |-> c]

NullRef == [kind |-> "null", module |-> 0, config |-> 0]

ObjectRef == [kind |-> "object", module |-> 0, config |-> 0]

\* the metadata read of a module that throws: none, the 'controllers'
\* lookup, the extraction of its k-th controller, or the 'imports' lookup
NoFault == [at |-> "none", k |-> 0]

FaultAt(where, k) == [at |-> where, k |-> k]

Max(a, b) == IF a >= b THEN a ELSE b

RECURSIVE SumOver(_, _)
SumOver(f, S) ==
  IF S = {} THEN 0
  ELSE LET x == CHOOSE y \in S : TRUE IN f[x] + SumOver(f, S \ {x})

Irregular(entry) == entry.kind # "class"

EntriesUsed == SumOver([m \in Modules |-> Len(importsOf[m])], Modules)

IrregularUsed ==
  SumOver([m \in Modules |->
             Cardinality({i \in 1..Len(importsOf[m]) : Irregular(importsOf[m][i])})],
          Modules)

FaultsUsed == Cardinality({m \in Modules : faultOf[m] # NoFault})

\* the highest module number met so far
MaxKnown ==
  LET met == {EntryModule} \cup
             UNION {{importsOf[m][i].module : i \in 1..Len(importsOf[m])} : m \in Modules}
  IN  CHOOSE x \in met : \A y \in met : y <= x

\* the entries an import list may continue with: a module met before or the
\* next new one, plain or (while irregular entries are left) wrapped in a
\* dynamic module, null or a bare object.  Every dynamic module is an object
\* of its own: its configuration payload is the serial number of the entry.
EntryChoices(known, irregularLeft, serial) ==
  {ClassRef(m) : m \in 1..(known + 1)} \cup
  (IF irregularLeft > 0
   THEN {DynamicRef(m, serial) : m \in 1..(known + 1)} \cup {NullRef, ObjectRef}
   ELSE {})

RECURSIVE ImportLists(_, _, _, _)
ImportLists(known, entriesLeft, irregularLeft, serial) ==
  IF entriesLeft = 0 THEN {<<>>}
  ELSE {<<>>} \cup
       UNION { { <<e>> \o rest :
                   rest \in ImportLists(Max(known, e.module), entriesLeft - 1,
                                        IF Irregular(e) THEN irregularLeft - 1
                                        ELSE irregularLeft,
                                        serial + 1) } :
               e \in EntryChoices(known, irregularLeft, serial) }

\* the import entries a run may meet: fewer when discovery is run by
\* listRoutes, or more than once
EntryBudget ==
  IF cli.pc # "off" THEN MaxCliEntries
  ELSE IF runs.left > 0 \/ runs.previous # <<>> THEN MaxRerunEntries
  ELSE MaxEntries

\* the 'imports' metadata a module not read before may turn out to declare
ImportChoices(m) ==
  IF m \in loaded THEN {importsOf[m]}
  ELSE ImportLists(MaxKnown, EntryBudget - EntriesUsed, MaxIrregular - IrregularUsed,
                   EntriesUsed + 1)

\* and the read of its metadata that may turn out to throw
FaultChoices(m) ==
  IF m \in loaded THEN {faultOf[m]}
  ELSE {NoFault} \cup
       (IF FaultsUsed < MaxFaults
        THEN {FaultAt("controllers", 0), FaultAt("imports", 0)} \cup
             {FaultAt("controller", k) :
                k \in {j \in 1..Len(ControllersOf(m)) : ControllersOf(m)[j].isClass}}
        ELSE {})

PrefixInputs == {Undefined, Lit(S_api)}

(***************************************************************************)
(* extractRoutesFromModule and processModule, route-scanner.ts:373-421.    *)
(***************************************************************************)
\* extractControllerRoutes not called on its own: no call is pending and
\* none has been made
NotExtracted == [pending |-> FALSE, done |-> FALSE, threw |-> FALSE, routes |-> <<>>]

\* a call processModule(m, ...), about to run its first statement
Frame(m) == [mod |-> m, pc |-> "enter", ci |-> 1, ii |-> 1]

Top == stack[Len(stack)]

SetTop(frame) == [stack EXCEPT ![Len(stack)] = frame]

\* processModule returns to its caller; the outermost return ends
\* extractRoutesFromModule, which returns routeMap
PopFrame ==
  /\ stack' = SubSeq(stack, 1, Len(stack) - 1)
  /\ phase' = IF Len(stack) = 1 THEN "returned" ELSE phase

\* the check of line 383 left out
AlreadyProcessedNever(moduleClass, processed) == FALSE

\* processedModules.has(moduleClass); every module reference of the model is
\* a class, so !moduleClass is false
AlreadyProcessed(moduleClass, processed) == moduleClass \in processed

\* line 387 left out
MarkProcessedForgets(processed, moduleClass) == processed

\* processedModules.add(moduleClass)
MarkProcessed(processed, moduleClass) == processed \cup {moduleClass}

\* the condition of line 396 left out
ShouldStoreAlways(routes) == TRUE

\* routes.length > 0
ShouldStore(routes) == Len(routes) > 0

\* a failing 'controllers' lookup read as an empty list
ThrowsAtControllersReadNever(fault) == FALSE

\* both lookups made before the controllers loop
ThrowsAtControllersReadEager(fault) == fault.at \in {"controllers", "imports"}

\* Reflect.getMetadata('controllers', moduleClass) throws
ThrowsAtControllersRead(fault) == fault.at = "controllers"

\* the catch block rethrows: the error leaves every enclosing call
CatchBlockRethrows(moduleClass) ==
  /\ caught' = caught \cup {moduleClass}
  /\ stack' = <<>>
  /\ phase' = "threw"

\* lines 417-420: the error is dropped and processModule returns
CatchBlock(moduleClass) ==
  /\ caught' = caught \cup {moduleClass}
  /\ PopFrame

\* the place a new key takes among the own keys of an object, which are
\* listed with the array indices first, in ascending order, and the other
\* names after them in the order in which they were created
KeyPlace(map, ctrlName) ==
  IF IsArrayIndex(ctrlName)
  THEN 1 + Cardinality({i \in 1..Len(map) :
                          /\ IsArrayIndex(map[i].name)
                          /\ NumeralBefore(map[i].name, ctrlName)})
  ELSE Len(map) + 1

\* routeMap[ctrlName] = routes: the key __proto__ is an accessor of
\* Object.prototype, whose setter makes the array the prototype of the map
\* and creates no key; an existing key keeps its place; a new key takes the
\* place the key order gives it
PutRoutes(map, ctrlName, routes) ==
  IF ctrlName = S_proto THEN map
  ELSE IF \E i \in 1..Len(map) : map[i].name = ctrlName
  THEN [i \in 1..Len(map) |->
          IF map[i].name = ctrlName THEN [name |-> ctrlName, routes |-> routes]
          ELSE map[i]]
  ELSE LET at == KeyPlace(map, ctrlName)
       IN  SubSeq(map, 1, at - 1)
           \o <<[name |-> ctrlName, routes |-> routes]>>
           \o SubSeq(map, at, Len(map))

\* routeMap[ctrlName] = routes, what it does to the prototype of the map
PutProto(proto, ctrlName, routes) ==
  IF ctrlName = S_proto THEN [array |-> TRUE, routes |-> routes] ELSE proto

\* only module classes are followed
ResolveImportClassOnly(entry) ==
  IF entry.kind = "class" THEN entry.module ELSE 0

\* the module the import loop recurses into for an entry, 0 for none
ResolveImport(entry) ==
  IF entry.kind = "class" THEN entry.module
  ELSE IF entry.kind \in {"dynamic", "object"}
       THEN (IF entry.kind = "dynamic" THEN entry.module ELSE 0)
       ELSE 0

\* a failing extraction read as a controller without routes
ThrowsAtControllerNever(controller, fault, ci) == FALSE

\* line 395: extractControllerRoutes(controller, prefix) throws, as it does
\* when a metadata read outside its loop over the members fails
ThrowsAtController(controller, fault, ci) ==
  controller.isClass /\ fault = FaultAt("controller", ci)

\* the imports are gone through from the last to the first
ImportAtReversed(imports, i) == imports[Len(imports) + 1 - i]

\* line 406: for (const importedModule of imports), the i-th iteration
ImportAt(imports, i) == imports[i]

\* the prefix reaches the entry module only
PrefixPassedToEntryOnly(entryPrefix, depth) ==
  IF depth = 1 THEN entryPrefix ELSE Undefined

\* lines 409 and 413: processModule(..., prefix), the prefix a call at the
\* given depth of the recursion is given and hands to the extraction
PrefixPassed(entryPrefix, depth) == entryPrefix

\* the Set of the call before is used again
NewProcessedModulesShared(earlier) == earlier

\* line 375: new Set<any>()
NewProcessedModules(earlier) == {}

\* line 374: const routeMap: RouteMap = {}
NewRouteMap(earlier) == <<>>

\* the prototype of the object {}: Object.prototype, which is no array
ObjectPrototype == [array |-> FALSE, routes |-> <<>>]

\* extractRoutesFromModule: a fresh routeMap and processedModules, then
\* processModule(moduleClass, routeMap, processedModules, prefix).  A call
\* made after an earlier one has returned is given the same entry module
\* and prefix; what is recorded of a call (the reads, the calls, the order,
\* the steps) starts anew with it.
StartDiscovery ==
  /\ \/ phase = "idle"
     \/ phase = "returned" /\ runs.left > 0
  /\ cli.pc \in {"off", "discover"}
  /\ extracted = NotExtracted
  /\ phase' = "walking"
  /\ routeMap' = NewRouteMap(routeMap)
  /\ routeProto' = ObjectPrototype
  /\ processedModules' = NewProcessedModules(processedModules)
  /\ stack' = <<Frame(EntryModule)>>
  /\ runs' = IF phase = "returned"
             THEN [left |-> runs.left - 1,
                   previous |-> Append(runs.previous,
                                       [map |-> routeMap, order |-> order])]
             ELSE runs
  /\ ctrlReads' = [m \in Modules |-> 0]
  /\ impReads' = [m \in Modules |-> 0]
  /\ calls' = {}
  /\ order' = <<>>
  /\ caught' = {}
  /\ steps' = 1
  /\ UNCHANGED <<app, extractVars, cliVars, pathVars, prefix, loaded, importsOf, faultOf>>

\* lines 383-387: return at once for a processed module, else mark it
EnterModule ==
  /\ phase = "walking"
  /\ Top.pc = "enter"
  /\ IF AlreadyProcessed(Top.mod, processedModules)
     THEN /\ PopFrame
          /\ UNCHANGED <<processedModules, order>>
     ELSE /\ processedModules' = MarkProcessed(processedModules, Top.mod)
          /\ order' = Append(order, Top.mod)
          /\ stack' = SetTop([Top EXCEPT !.pc = "readControllers"])
          /\ phase' = phase
  /\ steps' = steps + 1
  /\ UNCHANGED <<app, runs, extractVars, cliVars, pathVars, prefix, routeMap, routeProto, loaded, importsOf, faultOf,
                 ctrlReads, impReads, calls, caught>>

\* line 391: Reflect.getMetadata('controllers', moduleClass) || []; a throw
\* is caught at line 417 and the call returns.  The first read of a module
\* fixes what the module declares.
ReadControllers ==
  /\ phase = "walking"
  /\ Top.pc = "readControllers"
  /\ \E fault \in FaultChoices(Top.mod), imports \in ImportChoices(Top.mod) :
       /\ loaded' = loaded \cup {Top.mod}
       /\ faultOf' = [faultOf EXCEPT ![Top.mod] = fault]
       /\ importsOf' = [importsOf EXCEPT ![Top.mod] = imports]
       /\ IF ThrowsAtControllersRead(fault)
          THEN CatchBlock(Top.mod)
          ELSE /\ stack' = SetTop([Top EXCEPT !.pc = "controllers", !.ci = 1])
               /\ UNCHANGED <<phase, caught>>
  /\ ctrlReads' = [ctrlReads EXCEPT ![Top.mod] = @ + 1]
  /\ steps' = steps + 1
  /\ UNCHANGED <<app, runs, extractVars, cliVars, pathVars, prefix, processedModules, routeMap, routeProto, impReads,
                 calls, order>>

\* lines 393-401, one iteration: extract the controller's routes and store
\* them under its name when there are any; a throw of the extraction is
\* caught at line 417
ExtractController ==
  /\ phase = "walking"
  /\ Top.pc = "controllers"
  /\ Top.ci <= Len(ControllersOf(Top.mod))
  /\ LET controller == ControllersOf(Top.mod)[Top.ci]
     IN  IF ThrowsAtController(controller, faultOf[Top.mod], Top.ci)
         THEN /\ CatchBlock(Top.mod)
              /\ UNCHANGED <<routeMap, routeProto>>
         ELSE /\ IF controller.isClass
                 THEN LET routes == extractControllerRoutes(
                                      controller, PrefixPassed(prefix, Len(stack)))
                      IN  IF ShouldStore(routes)
                          THEN /\ routeMap' = PutRoutes(routeMap, controller.name, routes)
                               /\ routeProto' = PutProto(routeProto, controller.name, routes)
                          ELSE UNCHANGED <<routeMap, routeProto>>
                 ELSE UNCHANGED <<routeMap, routeProto>>
              /\ stack' = SetTop([Top EXCEPT !.ci = @ + 1])
              /\ UNCHANGED <<phase, caught>>
  /\ steps' = steps + 1
  /\ UNCHANGED <<app, runs, extractVars, cliVars, pathVars, prefix, processedModules, loaded, importsOf,
                 faultOf, ctrlReads, impReads, calls, order>>

\* line 404, after the controllers loop:
\* Reflect.getMetadata('imports', moduleClass) || []
ReadImports ==
  /\ phase = "walking"
  /\ Top.pc = "controllers"
  /\ Top.ci > Len(ControllersOf(Top.mod))
  /\ impReads' = [impReads EXCEPT ![Top.mod] = @ + 1]
  /\ IF faultOf[Top.mod].at = "imports"
     THEN CatchBlock(Top.mod)
     ELSE /\ stack' = SetTop([Top EXCEPT !.pc = "imports", !.ii = 1])
          /\ UNCHANGED <<phase, caught>>
  /\ steps' = steps + 1
  /\ UNCHANGED <<app, runs, extractVars, cliVars, pathVars, prefix, processedModules, routeMap, routeProto, loaded,
                 importsOf, faultOf, ctrlReads, calls, order>>

\* lines 406-416, one iteration: recurse into a module class or into the
\* module of a dynamic module, pass over anything else
ProcessImport ==
  /\ phase = "walking"
  /\ Top.pc = "imports"
  /\ Top.ii <= Len(importsOf[Top.mod])
  /\ LET target == ResolveImport(ImportAt(importsOf[Top.mod], Top.ii))
         advanced == SetTop([Top EXCEPT !.ii = @ + 1])
     IN  IF target # 0
         THEN /\ Len(stack) < MaxDepth
              /\ stack' = Append(advanced, Frame(target))
              /\ calls' = calls \cup {<<Top.mod, target>>}
         ELSE /\ stack' = advanced
              /\ UNCHANGED calls
  /\ steps' = steps + 1
  /\ UNCHANGED <<app, runs, extractVars, cliVars, pathVars, phase, prefix, processedModules, routeMap, routeProto, loaded,
                 importsOf, faultOf, ctrlReads, impReads, order, caught>>

\* the imports loop is over: processModule returns
ReturnFromModule ==
  /\ phase = "walking"
  /\ Top.pc = "imports"
  /\ Top.ii > Len(importsOf[Top.mod])
  /\ PopFrame
  /\ steps' = steps + 1
  /\ UNCHANGED <<app, runs, extractVars, cliVars, pathVars, prefix, processedModules, routeMap, routeProto, loaded,
                 importsOf, faultOf, ctrlReads, impReads, calls, order, caught>>

\* one call of discovery, none before it
NoRuns == [left |-> 0, previous |-> <<>>]

\* no discovery run: the state of the walk while only buildRoutePath is called
NoWalk ==
  /\ phase = "idle"
  /\ stack = <<>>
  /\ processedModules = {}
  /\ routeMap = <<>>
  /\ routeProto = ObjectPrototype
  /\ loaded = {}
  /\ importsOf = [m \in Modules |-> <<>>]
  /\ faultOf = [m \in Modules |-> NoFault]
  /\ ctrlReads = [m \in Modules |-> 0]
  /\ impReads = [m \in Modules |-> 0]
  /\ calls = {}
  /\ order = <<>>
  /\ caught = {}
  /\ steps = 0
  /\ runs = NoRuns

NoExtract ==
  /\ ctrl = NotAClass
  /\ extracted = NotExtracted

\* no listRoutes call: discovery is called directly
NoEnv ==
  [fileExists |-> TRUE, nodeEnvTest |-> FALSE, jestWorker |-> FALSE,
   urlLoads |-> TRUE, directError |-> "none", isTs |-> FALSE,
   requireLoads |-> TRUE, exports |-> "named", json |-> FALSE,
   path |-> "plain/app.module", className |-> "AppModule"]

NoExit == -1

\* the host's default locale has not been asked for
NoLocale == "none"

CliOff ==
  [pc |-> "off", stderr |-> <<>>, stdout |-> <<>>, exitCode |-> NoExit,
   rejected |-> <<>>, moduleLoaded |-> FALSE, tried |-> <<>>, error |-> <<>>,
   locale |-> NoLocale]

NoCli ==
  /\ env = NoEnv
  /\ cli = CliOff

Init ==
  /\ segs = <<Undefined, Undefined, Undefined>>
  /\ built = Undefined
  /\ prefix \in PrefixInputs
  /\ app = "test"
  /\ NoWalk
  /\ NoExtract
  /\ NoCli

Next ==
  \/ StartDiscovery
  \/ EnterModule
  \/ ReadControllers
  \/ ExtractController
  \/ ReadImports
  \/ ProcessImport
  \/ ReturnFromModule

Spec == Init /\ [][Next]_vars

(***************************************************************************)
(* The path normalizer on its own: the arguments are drawn from the short  *)
(* strings over PathChars and from the cases of the repository's tests.    *)
(***************************************************************************)
PathChars == {Slash, "a", "b"}

SegmentInputs == {Undefined} \cup {Lit(w) : w \in StringsUpTo(PathChars, MaxSegLen)}

\* tests/utils.test.ts:17-43, the arguments of each expectation
TestCaseInputs ==
  { <<Lit(S_api), Lit(S_v1), Lit(S_users)>>,
    <<Undefined, Lit(S_users), Lit(S_profile)>>,
    <<Lit(S_api), Undefined, Lit(S_health)>>,
    <<Undefined, Undefined, Lit(S_test)>>,
    <<Undefined, Undefined, Undefined>>,
    <<Lit(S_api \o <<Slash>>), Lit(<<Slash>> \o S_v1 \o <<Slash>>), Lit(<<Slash>> \o S_users)>>,
    <<Lit(<<>>), Lit(S_users), Lit(<<>>)>> }

InitPath ==
  /\ segs \in (SegmentInputs \X SegmentInputs \X SegmentInputs) \cup TestCaseInputs
  /\ built = Undefined
  /\ prefix = Undefined
  /\ app = "test"
  /\ NoWalk
  /\ NoExtract
  /\ NoCli

\* one call buildRoutePath(prefix, basePath, routePath)
BuildPath ==
  /\ ~built.present
  /\ built' = Lit(buildRoutePath(segs[1], segs[2], segs[3]))
  /\ UNCHANGED <<app, runs, extractVars, cliVars, segs, walkVars>>

NextPath == BuildPath

SpecPath == InitPath /\ [][NextPath]_vars

(***************************************************************************)
(* Claims about the path normalizer, checked under SpecPath.               *)
(***************************************************************************)
WellFormedPath(p) ==
  /\ p # <<>>
  /\ p[1] = Slash
  /\ ~HasDoubleSlash(p)
  /\ (p[Len(p)] = Slash => p = <<Slash>>)

\* C4: every path buildRoutePath returns, for any prefix, base path and
\* endpoint path strings, is non-empty, begins with '/', contains no '//'
\* and has no trailing '/' unless it is exactly '/'.
C4_PathWellFormed == built.present => WellFormedPath(built.s)

\* a call whose joined segments hold a run of slashes and a trailing slash
C4_Witness ==
  /\ built.present
  /\ segs[1] = Lit(<<"a", Slash>>)
  /\ segs[2] = Lit(<<Slash, "b">>)
  /\ segs[3] = Lit(<<Slash, Slash>>)
  /\ built.s = <<Slash, "a", Slash, "b">>

\* The algorithm of the specification, written on its own: drop the empty or
\* absent segments, join the rest with '/', prepend '/', collapse every run
\* of '/', strip a trailing '/' unless the result is just '/'.
RECURSIVE SpecJoin(_)
SpecJoin(strs) ==
  IF strs = <<>> THEN <<>>
  ELSE IF Len(strs) = 1 THEN strs[1]
  ELSE strs[1] \o <<Slash>> \o SpecJoin(Tail(strs))

RECURSIVE SpecCollapse(_, _)
SpecCollapse(s, prevSlash) ==
  IF s = <<>> THEN <<>>
  ELSE IF s[1] = Slash
       THEN (IF prevSlash THEN <<>> ELSE <<Slash>>) \o SpecCollapse(Tail(s), TRUE)
       ELSE <<s[1]>> \o SpecCollapse(Tail(s), FALSE)

SpecNormalize(p, b, r) ==
  LET given == <<p, b, r>>
      kept == {i \in 1..3 : given[i].present /\ Len(given[i].s) > 0}
      survivors == [k \in 1..Cardinality(kept) |->
                      given[CHOOSE i \in kept :
                              Cardinality({j \in kept : j < i}) = k - 1].s]
      collapsed == SpecCollapse(<<Slash>> \o SpecJoin(survivors), FALSE)
  IN  IF Len(collapsed) > 1 /\ collapsed[Len(collapsed)] = Slash
      THEN SubSeq(collapsed, 1, Len(collapsed) - 1)
      ELSE collapsed

\* C5: for every combination of the three optional segments buildRoutePath
\* returns what the specified algorithm returns.
C5_MatchesSpecAlgorithm ==
  built.present => built.s = SpecNormalize(segs[1], segs[2], segs[3])

\* normalize("api/", "/v1/", "/users") = "/api/v1/users"
C5_Witness ==
  /\ segs = <<Lit(S_api \o <<Slash>>), Lit(<<Slash>> \o S_v1 \o <<Slash>>),
              Lit(<<Slash>> \o S_users)>>
  /\ built = Lit(<<Slash>> \o S_api \o <<Slash>> \o S_v1 \o <<Slash>> \o S_users)

\* the argument triples that differ from t only by '' in place of undefined
\* or undefined in place of ''
EmptyAbsentVariants(t) ==
  {u \in [1..3 -> {Undefined, Lit(<<>>)} \cup {t[i] : i \in 1..3}] :
     \A i \in 1..3 :
       IF t[i] \in {Undefined, Lit(<<>>)}
       THEN u[i] \in {Undefined, Lit(<<>>)}
       ELSE u[i] = t[i]}

\* C6: an empty-string segment is treated exactly like an absent one
\* (exchanging them never changes the result), and when all three segments
\* are empty or absent the result is exactly "/".
C6_EmptyLikeAbsent ==
  built.present =>
    /\ \A u \in EmptyAbsentVariants(segs) :
         buildRoutePath(u[1], u[2], u[3]) = built.s
    /\ ((\A i \in 1..3 : segs[i] \in {Undefined, Lit(<<>>)}) => built.s = <<Slash>>)

\* normalize("", "users", "") = "/users"
C6_Witness ==
  /\ segs = <<Lit(<<>>), Lit(S_users), Lit(<<>>)>>
  /\ built = Lit(<<Slash>> \o S_users)

(***************************************************************************)
(* Discovery run on the test application or on the application with the    *)
(* controller named __proto__.                                             *)
(***************************************************************************)
InitKeys ==
  /\ segs = <<Undefined, Undefined, Undefined>>
  /\ built = Undefined
  /\ prefix \in PrefixInputs
  /\ app \in {"test", "keys"}
  /\ NoWalk
  /\ NoExtract
  /\ NoCli

SpecKeys == InitKeys /\ [][Next]_vars

(***************************************************************************)
(* Claims about the module graph walk, checked under Spec; C3 is checked   *)
(* under SpecKeys.                                                         *)
(***************************************************************************)
\* the modules an import list names, directly or inside a dynamic module
DeclaredTargets(m) ==
  {importsOf[m][i].module :
     i \in {j \in 1..Len(importsOf[m]) : importsOf[m][j].kind \in {"class", "dynamic"}}}

\* the modules reachable from the modules of S along the import lists of
\* the modules in Through
RECURSIVE ReachFrom(_, _)
ReachFrom(S, Through) ==
  LET more == S \cup UNION {DeclaredTargets(m) : m \in S \cap Through}
  IN  IF more = S THEN S ELSE ReachFrom(more, Through)

\* reachable from the entry module in the declared graph
Reachable == ReachFrom({EntryModule}, Modules)

\* reachable from the entry module along the import lists that can be read
ReachableByReading ==
  ReachFrom({EntryModule}, {m \in Modules : faultOf[m] = NoFault})

\* the number of members of a controller that declare a path and a verb
RouteCount(controller) ==
  Cardinality({i \in 1..Len(controller.members) :
                 /\ controller.members[i].name # S_constructor
                 /\ controller.members[i].callable
                 /\ controller.members[i].path.present
                 /\ controller.members[i].verb.present})

\* the positions of the controllers of module m that are classes with routes
RouteControllers(m) ==
  {i \in 1..Len(ControllersOf(m)) :
     ControllersOf(m)[i].isClass /\ RouteCount(ControllersOf(m)[i]) > 0}

MapKeys == {routeMap[i].name : i \in 1..Len(routeMap)}

RoutesUnder(name) ==
  LET i == CHOOSE j \in 1..Len(routeMap) : routeMap[j].name = name
  IN  routeMap[i].routes

TotalRoutes == SumOver([i \in 1..Len(routeMap) |-> Len(routeMap[i].routes)], 1..Len(routeMap))

\* the k-th controller of module m is in the map with all of its records
Discovered(m, k) ==
  LET controller == ControllersOf(m)[k]
  IN  /\ controller.name \in MapKeys
      /\ Len(RoutesUnder(controller.name)) = RouteCount(controller)
      /\ RoutesUnder(controller.name) = extractControllerRoutes(controller, prefix)

NoKeyOf(m) ==
  \A k \in 1..Len(ControllersOf(m)) : ControllersOf(m)[k].name \notin MapKeys

NoCallFrom(m) == \A c \in calls : c[1] # m

Diamond ==
  /\ importsOf[1] = <<ClassRef(2), ClassRef(3)>>
  /\ importsOf[2] = <<ClassRef(4)>>
  /\ importsOf[3] = <<ClassRef(4)>>
  /\ importsOf[4] = <<>>

\* C1: in one discovery run each module has its controllers and its imports
\* read at most once, however many import paths reach it, also through
\* dynamic references and also when its processing failed; when no read
\* fails, every module an import names is read exactly once.
C1_ProcessedAtMostOnce ==
  /\ \A m \in Modules : ctrlReads[m] <= 1 /\ impReads[m] <= 1
  /\ (phase = "returned" /\ FaultsUsed = 0) =>
       \A m \in Reachable : ctrlReads[m] = 1 /\ impReads[m] = 1

\* the diamond has been walked: module 4 was called from 2 and from 3
C1_Witness ==
  /\ phase = "returned"
  /\ Diamond
  /\ {<<2, 4>>, <<3, 4>>} \subseteq calls
  /\ ctrlReads[4] = 1
  /\ impReads[4] = 1

\* the steps a run over the graph read so far can take: the first call,
\* and for every reachable module its entry, its two lookups, its return,
\* one step per controller and, per import entry, the entry's own step and
\* the step in which a repeated call returns at once
StepBound ==
  1 + SumOver([m \in Modules |->
                 4 + Len(ControllersOf(m)) + 2 * Len(importsOf[m])],
              Reachable)

\* C2: discovery terminates on every module graph, cycles and self-imports
\* included: a run that has not returned has a call that can take a step
\* (the recursion is never deeper than the number of reachable modules) and
\* takes no more steps than the graph allows; the number of modules processed
\* never exceeds the number of modules reachable from the entry, and when no
\* read fails every reachable module has had its controllers extracted
\* exactly once at the end.
C2_Terminates ==
  /\ phase \in {"idle", "walking", "returned"}
  /\ phase = "walking" =>
       /\ stack # <<>>
       /\ Top.pc = "imports" => Len(stack) <= Cardinality(Reachable)
       /\ Len(stack) < MaxDepth
  /\ steps <= StepBound
  /\ Len(order) <= Cardinality(Reachable)
  /\ (phase = "returned" /\ FaultsUsed = 0) =>
       \A m \in Reachable :
         /\ ctrlReads[m] = 1
         /\ Cardinality({i \in 1..Len(order) : order[i] = m}) = 1
         /\ \A k \in RouteControllers(m) : Discovered(m, k)

\* a two-module cycle and a self-import have been walked to the end
C2_Witness ==
  /\ phase = "returned"
  /\ importsOf[1] = <<ClassRef(2), ClassRef(1)>>
  /\ importsOf[2] = <<ClassRef(1)>>
  /\ order = <<1, 2>>
  /\ calls = {<<1, 2>>, <<2, 1>>, <<1, 1>>}

\* the names of the controllers of the reachable modules are distinct
DistinctNames ==
  \A m1, m2 \in Reachable :
    \A k1 \in 1..Len(ControllersOf(m1)), k2 \in 1..Len(ControllersOf(m2)) :
      (ControllersOf(m1)[k1].isClass /\ ControllersOf(m2)[k2].isClass
         /\ ControllersOf(m1)[k1].name = ControllersOf(m2)[k2].name)
        => (m1 = m2 /\ k1 = k2)

\* C3 as stated: when no metadata read fails and controller names are
\* distinct, the returned RouteMap has exactly one key for every controller
\* with at least one route declared on a module reachable from the entry,
\* each key maps to all records of its controller, and the record count is
\* the sum of the controllers' route counts (8 for the entry module's two
\* controllers).
C3_MapIsComplete ==
  (phase = "returned" /\ FaultsUsed = 0 /\ DistinctNames) =>
    /\ MapKeys = UNION {{ControllersOf(m)[k].name : k \in RouteControllers(m)} :
                         m \in Reachable}
    /\ Cardinality(MapKeys) = Len(routeMap)
    /\ \A m \in Reachable : \A k \in RouteControllers(m) : Discovered(m, k)
    /\ TotalRoutes =
         SumOver([m \in Modules |->
                    SumOver([k \in 1..Len(ControllersOf(m)) |->
                               RouteCount(ControllersOf(m)[k])],
                            RouteControllers(m))],
                 Reachable)
    /\ (Reachable = {EntryModule} => (Len(routeMap) = 2 /\ TotalRoutes = 8))

\* the positions of the controllers of module m that are classes with
\* routes and are not named __proto__
KeyedControllers(m) ==
  {k \in RouteControllers(m) : ControllersOf(m)[k].name # S_proto}

\* C3, what the code does: when no metadata read fails and controller names
\* are distinct, the returned RouteMap has exactly one key for every
\* controller with at least one route declared on a reachable module and
\* not named __proto__, each key maps to all records of its controller, and
\* the record count is the sum of the route counts of those controllers; a
\* controller named __proto__ has no key and its records are not counted:
\* they have become the prototype of the map.
C3_MapCompleteButProto ==
  (phase = "returned" /\ FaultsUsed = 0 /\ DistinctNames) =>
    /\ MapKeys = UNION {{ControllersOf(m)[k].name : k \in KeyedControllers(m)} :
                         m \in Reachable}
    /\ S_proto \notin MapKeys
    /\ Cardinality(MapKeys) = Len(routeMap)
    /\ \A m \in Reachable : \A k \in KeyedControllers(m) : Discovered(m, k)
    /\ \A m \in Reachable : \A k \in RouteControllers(m) \ KeyedControllers(m) :
         routeProto = [array |-> TRUE,
                       routes |-> extractControllerRoutes(ControllersOf(m)[k], prefix)]
    /\ TotalRoutes =
         SumOver([m \in Modules |->
                    SumOver([k \in 1..Len(ControllersOf(m)) |->
                               RouteCount(ControllersOf(m)[k])],
                            KeyedControllers(m))],
                 Reachable)
    /\ (Reachable = {EntryModule} => (Len(routeMap) = 2 /\ TotalRoutes = 8))

\* module 2, which declares a controller named __proto__ with one route
\* beside a controller with one route, was processed after the entry
\* module: the map has the three keys of the other controllers and their
\* nine records, and the tenth record is in the prototype of the map
C3_Witness ==
  /\ phase = "returned"
  /\ FaultsUsed = 0
  /\ DistinctNames
  /\ app = "keys"
  /\ importsOf[1] = <<ClassRef(2)>>
  /\ importsOf[2] = <<>>
  /\ order = <<1, 2>>
  /\ Len(routeMap) = 3
  /\ TotalRoutes = 9
  /\ S_proto \notin MapKeys
  /\ routeProto.array
  /\ Len(routeProto.routes) = 1

\* the modules a read of whose metadata has thrown
Failed ==
  {m \in Modules :
     \/ faultOf[m].at = "controllers" /\ ctrlReads[m] > 0
     \/ faultOf[m].at = "controller" /\ m \in caught
     \/ faultOf[m].at = "imports" /\ impReads[m] > 0}

\* C7 as stated: a module one of whose metadata reads throws is skipped as
\* a whole, none of its controllers appear in the RouteMap and none of its
\* imports are traversed through it.
C7_WholeModuleSkipped ==
  \A m \in Failed : NoKeyOf(m) /\ NoCallFrom(m)

\* C7 as amended: the error is swallowed and none of the module's imports
\* are traversed through it; none of its controllers appear in the RouteMap
\* when it is the 'controllers' lookup that throws, while the controllers
\* extracted before a later failure (of a controller's extraction or of the
\* 'imports' lookup) stay in the RouteMap.
C7_FailedModuleContribution ==
  /\ phase # "threw"
  /\ \A m \in Failed :
       /\ m \in caught
       /\ NoCallFrom(m)
       /\ faultOf[m].at = "controllers" => NoKeyOf(m)
       /\ faultOf[m].at = "controller" =>
            \A k \in RouteControllers(m) :
              IF k < faultOf[m].k THEN Discovered(m, k)
              ELSE ControllersOf(m)[k].name \notin MapKeys
       /\ faultOf[m].at = "imports" =>
            \A k \in RouteControllers(m) : Discovered(m, k)
  /\ \A m \in Modules :
       (faultOf[m].at = "controllers" /\ m \in processedModules /\ phase = "returned")
         => m \in Failed

\* the 'controllers' lookup of an imported module threw: its controller is
\* not in the map and the module it imports was never processed
C7_Witness ==
  /\ phase = "returned"
  /\ importsOf[1] = <<ClassRef(2)>>
  /\ faultOf[2] = FaultAt("controllers", 0)
  /\ importsOf[2] = <<ClassRef(3)>>
  /\ 2 \in caught
  /\ 3 \notin processedModules
  /\ Len(routeMap) = 2

\* C8: when the 'imports' lookup of a module throws, the module's own
\* controllers are still discovered: their records are in the final RouteMap.
C8_ControllersSurviveImportsFailure ==
  phase = "returned" =>
    \A m \in processedModules :
      faultOf[m].at = "imports" =>
        \A k \in RouteControllers(m) : Discovered(m, k)

\* the 'imports' lookup of module 2 threw and its controller is in the map
C8_Witness ==
  /\ phase = "returned"
  /\ importsOf[1] = <<ClassRef(2)>>
  /\ faultOf[2] = FaultAt("imports", 0)
  /\ importsOf[2] = <<ClassRef(3)>>
  /\ 2 \in caught
  /\ Discovered(2, 1)
  /\ 3 \notin processedModules

\* C9: an error while processing one module never stops the walk for its
\* siblings: the call returns without raising, every module reachable from
\* the entry along import lists that could be read has been processed, and
\* the controllers of every module that did not fail are discovered.
C9_SiblingsStillProcessed ==
  /\ phase # "threw"
  /\ phase = "returned" =>
       /\ processedModules = ReachableByReading
       /\ \A m \in processedModules \ caught :
            \A k \in RouteControllers(m) : Discovered(m, k)

\* the entry imports [2, 3], module 2 failed, module 3 and the module below
\* it were processed
C9_Witness ==
  /\ phase = "returned"
  /\ importsOf[1] = <<ClassRef(2), ClassRef(3)>>
  /\ 2 \in caught
  /\ importsOf[3] = <<ClassRef(4)>>
  /\ {3, 4} \subseteq processedModules
  /\ Discovered(3, 2)
  /\ Discovered(4, 1)

\* C10: a dynamic module reference is traversed exactly as if its inner
\* module had been imported directly, whatever its configuration payload;
\* an entry that resolves to no module (null, an object without a module
\* class) is skipped without error and the remaining imports of the same
\* module are still processed.
C10_ImportEntriesResolved ==
  /\ \A m \in Modules, c \in 1..(MaxEntries + 1) :
       ResolveImport(DynamicRef(m, c)) = ResolveImport(ClassRef(m))
  /\ (FaultsUsed = 0) => caught = {}
  /\ phase = "returned" =>
       \A m \in processedModules \ caught :
         /\ {c[2] : c \in {d \in calls : d[1] = m}} = DeclaredTargets(m)
         /\ DeclaredTargets(m) \subseteq processedModules

\* null is passed over and the dynamic module after it is traversed
C10_Witness ==
  /\ phase = "returned"
  /\ importsOf[1] = <<NullRef, DynamicRef(2, 2)>>
  /\ importsOf[2] = <<ClassRef(1)>>
  /\ FaultsUsed = 0
  /\ order = <<1, 2>>
  /\ Discovered(2, 1)

(***************************************************************************)
(* The route extractor on its own: extractControllerRoutes applied to a    *)
(* controller descriptor drawn from the descriptors below.                 *)
(***************************************************************************)
S_Ctrl == <<"C", "t", "r", "l">>

S_method == <<"m", "e", "t", "h", "o", "d">>

S_get == <<"g", "e", "t">>

S_list == <<"l", "i", "s", "t">>

\* what a member may be, its name apart: an endpoint, a method with a path
\* or a verb only, a plain method, an accessor whose value carries endpoint
\* metadata, a method whose metadata cannot be read
MemberKinds ==
  { [callable |-> TRUE, path |-> Lit(<<>>), verb |-> Verb(0), throws |-> FALSE],
    [callable |-> TRUE, path |-> Lit(<<Slash>>), verb |-> Verb(0), throws |-> FALSE],
    [callable |-> TRUE, path |-> Lit(S_health), verb |-> Verb(0), throws |-> FALSE],
    [callable |-> TRUE, path |-> Lit(S_test), verb |-> Verb(1), throws |-> FALSE],
    [callable |-> TRUE, path |-> Lit(S_test), verb |-> NoVerb, throws |-> FALSE],
    [callable |-> TRUE, path |-> Undefined, verb |-> Verb(0), throws |-> FALSE],
    [callable |-> TRUE, path |-> Undefined, verb |-> NoVerb, throws |-> FALSE],
    [callable |-> FALSE, path |-> Lit(S_health), verb |-> Verb(0), throws |-> FALSE],
    [callable |-> TRUE, path |-> Lit(S_test), verb |-> Verb(1), throws |-> TRUE] }

Named(name, kind) ==
  [name |-> name, callable |-> kind.callable, path |-> kind.path,
   verb |-> kind.verb, throws |-> kind.throws]

\* the member lists of up to n members, named method1, method2, ... by position
RECURSIVE MemberLists(_)
MemberLists(n) ==
  IF n = 0 THEN {<<>>}
  ELSE LET shorter == MemberLists(n - 1)
       IN  shorter \cup
           {Append(ms, Named(S_method \o NumberToString(Len(ms) + 1), k)) :
              ms \in {l \in shorter : Len(l) = n - 1}, k \in MemberKinds}

BasePathInputs == {Undefined, Lit(<<>>), Lit(S_users)}

\* the members a base class may contribute: none, or one endpoint
InheritedInputs ==
  { <<>>, << Method(<<"b", "a", "s", "e">>, Lit(<<"b", "a", "s", "e">>), 0) >> }

\* the verb values drawn: the numbers up to MaxVerbCode, three strings, and
\* three strings that name members of Object.prototype
VerbInputs ==
  {Verb(n) : n \in 0..MaxVerbCode} \cup
  {VerbText(S_get), VerbText(<<"P", "u", "r", "g", "e">>), VerbText(<<"1">>)} \cup
  {VerbText(S_constructor), VerbText(S_toString), VerbText(S_proto)}

\* a class whose only endpoint declares the verb v
VerbController(v) ==
  Class(S_Ctrl, Undefined,
        << [name |-> S_method \o <<"1">>, callable |-> TRUE, path |-> Lit(S_test),
            verb |-> v, throws |-> FALSE] >>)

\* a class two of whose endpoints have array index names
IndexNamedController ==
  Class(S_Ctrl, Lit(S_users),
        << Method(S_list, Lit(S_list), 0),
           Method(<<"1", "0">>, Lit(<<"b">>), 0),
           Method(<<"2">>, Lit(<<"a">>), 1) >>)

\* a class with endpoints named 2^32 - 1, 2^32 - 2 and 2: the first is no
\* array index
LargeIndexNamedController ==
  Class(S_Ctrl, Lit(S_users),
        << Method(S_list, Lit(S_list), 0),
           Method(<<"4", "2", "9", "4", "9", "6", "7", "2", "9", "5">>, Lit(<<"c">>), 0),
           Method(MaxArrayIndex, Lit(<<"b">>), 0),
           Method(<<"2">>, Lit(<<"a">>), 1) >>)

\* null or undefined
NullController == NotAClass

\* an object that is not a function, with a prototype property that holds an
\* endpoint, and whose own metadata cannot be read
ObjectController ==
  [isClass |-> FALSE, hasPrototype |-> TRUE, name |-> S_Ctrl, basePath |-> Lit(S_users),
   members |-> <<Constructor, Method(S_list, Lit(S_list), 0)>>, inherited |-> <<>>,
   metadataThrows |-> TRUE]

\* a function without a prototype (an arrow function)
ArrowController ==
  [isClass |-> TRUE, hasPrototype |-> FALSE, name |-> S_Ctrl, basePath |-> Undefined,
   members |-> <<>>, inherited |-> <<>>, metadataThrows |-> FALSE]

\* a class the read of whose own metadata raises
UnreadableController ==
  [Class(S_Ctrl, Lit(S_users), << Method(S_list, Lit(S_list), 0) >>)
     EXCEPT !.metadataThrows = TRUE]

ControllerInputs ==
  { [Class(S_Ctrl, b, ms) EXCEPT !.inherited = inh] :
      b \in BasePathInputs, ms \in MemberLists(MaxMembers), inh \in InheritedInputs }
  \cup {VerbController(v) : v \in VerbInputs}
  \cup {IndexNamedController, LargeIndexNamedController, NullController, ObjectController, ArrowController,
        UnreadableController}

\* the call raises: line 431 is outside the try block of the member loop
ExtractionThrows(controller) == controller.isClass /\ controller.metadataThrows

InitExtract ==
  /\ segs = <<Undefined, Undefined, Undefined>>
  /\ built = Undefined
  /\ prefix \in PrefixInputs
  /\ app = "test"
  /\ NoWalk
  /\ ctrl \in ControllerInputs
  /\ extracted = [NotExtracted EXCEPT !.pending = TRUE]
  /\ NoCli

\* one call extractControllerRoutes(controller, prefix)
Extract ==
  /\ extracted.pending
  /\ extracted' =
       IF ExtractionThrows(ctrl)
       THEN [pending |-> FALSE, done |-> TRUE, threw |-> TRUE, routes |-> <<>>]
       ELSE [pending |-> FALSE, done |-> TRUE, threw |-> FALSE,
             routes |-> extractControllerRoutes(ctrl, prefix)]
  /\ UNCHANGED <<app, runs, ctrl, cliVars, pathVars, walkVars>>

NextExtract == Extract

SpecExtract == InitExtract /\ [][NextExtract]_vars

(***************************************************************************)
(* Discovery run on the application in which controllers share a name.     *)
(***************************************************************************)
InitClash ==
  /\ segs = <<Undefined, Undefined, Undefined>>
  /\ built = Undefined
  /\ prefix = Undefined
  /\ app = "clash"
  /\ NoWalk
  /\ NoExtract
  /\ NoCli

SpecClash == InitClash /\ [][Next]_vars

\* the class controllers in the order a run without failures meets them:
\* module by module in processing order, each module's list in list order
RECURSIVE EncounteredFrom(_)
EncounteredFrom(i) ==
  IF i > Len(order) THEN <<>>
  ELSE SelectSeq(ControllersOf(order[i]), IsControllerClass) \o EncounteredFrom(i + 1)

Encountered == EncounteredFrom(1)

\* the positions in Encountered of the controllers called name
PositionsOf(name) == {i \in 1..Len(Encountered) : Encountered[i].name = name}

\* and of those among them whose extraction yields a record
ProducingPositionsOf(name) ==
  {i \in PositionsOf(name) : extractControllerRoutes(Encountered[i], prefix) # <<>>}

SetMax(S) == CHOOSE x \in S : \A y \in S : y <= x

EntriesFor(name) == {i \in 1..Len(routeMap) : routeMap[i].name = name}

\* C11 as stated: at the end of a run without failures the entry of every
\* controller name met holds the records of the controller of that name met
\* last, there is one entry for the name, and no error has left the run.
C11_LaterOverwrites ==
  /\ phase # "threw"
  /\ (phase = "returned" /\ FaultsUsed = 0) =>
       \A i \in 1..Len(Encountered) :
         LET name == Encountered[i].name
             last == Encountered[SetMax(PositionsOf(name))]
         IN  /\ Cardinality(EntriesFor(name)) = 1
             /\ RoutesUnder(name) = extractControllerRoutes(last, prefix)

\* C11, what the code does: at the end of a run without failures the entry
\* of a controller name other than __proto__ holds the records of the last
\* controller of that name whose extraction yielded at least one record (a
\* later controller of the same name without records leaves the entry as it
\* is), there is one entry for the name, and a name none of whose
\* controllers yields a record has no entry; the name __proto__ has no
\* entry, whichever controllers bear it: the records of the last of them
\* with records are the prototype of the map; no error has left the run.
C11_LastProducingOverwrites ==
  /\ phase # "threw"
  /\ (phase = "returned" /\ FaultsUsed = 0) =>
       \A i \in 1..Len(Encountered) :
         LET name == Encountered[i].name
             producing == ProducingPositionsOf(name)
         IN  IF producing = {}
             THEN EntriesFor(name) = {}
             ELSE IF name = S_proto
             THEN /\ EntriesFor(name) = {}
                  /\ routeProto =
                       [array |-> TRUE,
                        routes |-> extractControllerRoutes(
                                     Encountered[SetMax(producing)], prefix)]
             ELSE /\ Cardinality(EntriesFor(name)) = 1
                  /\ RoutesUnder(name) =
                       extractControllerRoutes(Encountered[SetMax(producing)], prefix)

\* the two controllers named __proto__ of module 5 were met, both with
\* records: the map has no entry of that name, and the records of the
\* second are the prototype of the map
C11_Witness ==
  /\ phase = "returned"
  /\ FaultsUsed = 0
  /\ \E k \in 1..Len(order) : order[k] = 5
  /\ Cardinality(ProducingPositionsOf(S_proto)) = 2
  /\ EntriesFor(S_proto) = {}
  /\ routeProto = [array |-> TRUE,
                   routes |-> extractControllerRoutes(ProtoNamedControllerV2, prefix)]

\* C12: at every point of a run every key of the RouteMap maps to a
\* non-empty list, which is the list of records of a class controller of
\* that name declared by a processed module; a controller without records
\* (a class without endpoints, a same-named class without endpoints met
\* later) is never inserted and never overwrites an entry.
C12_EntriesNonEmpty ==
  /\ \A i \in 1..Len(routeMap) :
       /\ routeMap[i].routes # <<>>
       /\ \E m \in processedModules : \E k \in 1..Len(ControllersOf(m)) :
            /\ IsControllerClass(ControllersOf(m)[k])
            /\ ControllersOf(m)[k].name = routeMap[i].name
            /\ RouteCount(ControllersOf(m)[k]) = Len(routeMap[i].routes)
            /\ RouteCount(ControllersOf(m)[k]) > 0
  /\ PlainProvider.name \notin MapKeys

\* the same-named class without endpoints of module 3 and the class without
\* endpoints of module 4 have been passed: neither has changed the map
C12_Witness ==
  /\ phase = "returned"
  /\ FaultsUsed = 0
  /\ order = <<1, 2, 3, 4>>
  /\ Len(routeMap) = 4
  /\ FeatureController(4).name \in MapKeys
  /\ Len(RoutesUnder(UsersController.name)) = 2

(***************************************************************************)
(* Claims about the route extractor, checked under SpecExtract.            *)
(***************************************************************************)
\* the call on ctrl has returned normally and ctrl is a class with a prototype
ExtractedFromClass ==
  /\ extracted.done
  /\ ~extracted.threw
  /\ ctrl.isClass
  /\ ctrl.hasPrototype

\* a declared member that is a method other than the constructor
IsOwnMethod(member) == member.callable /\ member.name # S_constructor

\* a method with both a declared path and a declared verb that can be read
IsEndpoint(member) ==
  /\ IsOwnMethod(member)
  /\ ~member.throws
  /\ member.path.present
  /\ member.verb.present

\* the positions of the records whose handler names this member of ctrl
RecordsOf(member) ==
  {i \in 1..Len(extracted.routes) :
     extracted.routes[i].handler = ctrl.name \o <<".">> \o member.name}

\* C13: the extractor produces exactly one record for each method that has
\* both a declared path and a declared verb, the empty string counting as a
\* declared path, and no record and no error for a method lacking either.
C13_OneRecordPerEndpoint ==
  ExtractedFromClass =>
    /\ \A i \in 1..Len(ctrl.members) :
         LET member == ctrl.members[i]
         IN  (IsOwnMethod(member) /\ ~member.throws) =>
               Cardinality(RecordsOf(member)) =
                 (IF member.path.present /\ member.verb.present THEN 1 ELSE 0)
    /\ Len(extracted.routes) =
         Cardinality({i \in 1..Len(ctrl.members) : IsEndpoint(ctrl.members[i])})

\* an endpoint with the empty path, a method with a path only and a method
\* with a verb only: one record
C13_Witness ==
  /\ ExtractedFromClass
  /\ Len(ctrl.members) = 4
  /\ ctrl.members[2].path = Lit(<<>>) /\ ctrl.members[2].verb = Verb(0)
  /\ ~ctrl.members[2].throws
  /\ ctrl.members[3].path = Lit(S_test) /\ ctrl.members[3].verb = NoVerb
  /\ ctrl.members[4].path = Undefined /\ ctrl.members[4].verb = Verb(0)
  /\ Len(extracted.routes) = 1
  /\ extracted.routes[1].handler = S_Ctrl \o <<".">> \o S_method \o <<"1">>

\* the controller of the example: base path "", GET '/' and GET 'health'
ExampleController ==
  Class(S_Ctrl, Lit(<<>>),
        << Method(S_method \o <<"1">>, Lit(<<Slash>>), 0),
           Method(S_method \o <<"2">>, Lit(S_health), 0) >>)

\* C14: the path of every record is normalize(prefix, controller base path,
\* endpoint path), an absent base path read as the empty string; the example
\* controller without a prefix yields {GET, "/", "Ctrl.method1"} and
\* {GET, "/health", "Ctrl.method2"}.
C14_PathIsNormalized ==
  ExtractedFromClass =>
    /\ \A i \in 1..Len(extracted.routes) :
         \E j \in 1..Len(ctrl.members) :
           /\ IsEndpoint(ctrl.members[j])
           /\ i \in RecordsOf(ctrl.members[j])
           /\ extracted.routes[i].path =
                SpecNormalize(prefix,
                              IF ctrl.basePath.present THEN ctrl.basePath ELSE Lit(<<>>),
                              ctrl.members[j].path)
    /\ (ctrl = ExampleController /\ prefix = Undefined) =>
         extracted.routes =
           << [method |-> <<"G", "E", "T">>, path |-> <<"/">>,
               handler |-> <<"C", "t", "r", "l", ".", "m", "e", "t", "h", "o", "d", "1">>],
              [method |-> <<"G", "E", "T">>, path |-> <<"/", "h", "e", "a", "l", "t", "h">>,
               handler |-> <<"C", "t", "r", "l", ".", "m", "e", "t", "h", "o", "d", "2">>] >>

\* the example has been extracted, and so has its variant with a prefix and
\* a base path
C14_Witness ==
  /\ ExtractedFromClass
  /\ \/ ctrl = ExampleController /\ prefix = Undefined /\ Len(extracted.routes) = 2
     \/ /\ ctrl = [ExampleController EXCEPT !.basePath = Lit(S_users)]
        /\ prefix = Lit(S_api)
        /\ extracted.routes[2].path = <<Slash>> \o S_api \o <<Slash>> \o S_users
                                        \o <<Slash>> \o S_health

\* the canonical verb names in the order of their codes 0..7
SpecVerbNames ==
  << <<"G", "E", "T">>, <<"P", "O", "S", "T">>, <<"P", "U", "T">>,
     <<"D", "E", "L", "E", "T", "E">>, <<"P", "A", "T", "C", "H">>,
     <<"O", "P", "T", "I", "O", "N", "S">>, <<"H", "E", "A", "D">>,
     <<"A", "L", "L">> >>

\* the string form of a raw verb value
SpecStringForm(v) == IF v.kind = "number" THEN NumberToString(v.code) ELSE v.text

\* every record's method is what expected(v) gives for the verb v of its member
VerbsAre(expected(_)) ==
  ExtractedFromClass =>
    /\ \A i \in 1..Len(extracted.routes) :
         \E j \in 1..Len(ctrl.members) :
           /\ IsEndpoint(ctrl.members[j])
           /\ i \in RecordsOf(ctrl.members[j])
           /\ extracted.routes[i].method = expected(ctrl.members[j].verb)
    /\ \A v \in VerbInputs : ctrl = VerbController(v) => Len(extracted.routes) = 1

\* the numeric codes 0..7 give their names, any other value its uppercased
\* string form
VerbNameAsStated(v) ==
  IF v.kind = "number" /\ v.code \in 0..7 THEN SpecVerbNames[v.code + 1]
  ELSE ToUpperCase(SpecStringForm(v))

\* C15 as stated: the numeric codes 0..7 are mapped to GET, POST, PUT,
\* DELETE, PATCH, OPTIONS, HEAD, ALL and any other verb value gives the
\* uppercased string form of the raw value, without an error.
C15_VerbAsStated == VerbsAre(VerbNameAsStated)

\* a value whose string form spells a code 0..7 gives the name of the code,
\* a value whose string form names a member of Object.prototype gives that
\* member, any other value its uppercased string form
VerbNameByKey(v) ==
  IF \E n \in 0..7 : SpecStringForm(v) = NumberToString(n)
  THEN SpecVerbNames[(CHOOSE n \in 0..7 : SpecStringForm(v) = NumberToString(n)) + 1]
  ELSE IF SpecStringForm(v) \in ObjectPrototypeKeys
  THEN InheritedMember(SpecStringForm(v))
  ELSE ToUpperCase(SpecStringForm(v))

\* C15, what the code does: the numeric codes 0..7, and the strings "0".."7"
\* that spell them, are mapped to GET, POST, PUT, DELETE, PATCH, OPTIONS,
\* HEAD, ALL (code 1 gives POST, code 0 gives GET); a string that names a
\* member of Object.prototype ('constructor', 'toString', '__proto__') gives
\* that member, which is no string; any other number or string gives its
\* uppercased string form (8 gives "8", 11 gives "11", 'get' gives "GET");
\* no error is raised.
C15_VerbNormalized ==
  /\ VerbsAre(VerbNameByKey)
  /\ extracted.done =>
       /\ ctrl = VerbController(VerbText(S_constructor)) =>
            /\ ~IsString(extracted.routes[1].method)
            /\ IsFunction(extracted.routes[1].method)
       /\ ctrl = VerbController(VerbText(S_toString)) =>
            IsFunction(extracted.routes[1].method)
       /\ ctrl = VerbController(VerbText(S_proto)) =>
            /\ ~IsString(extracted.routes[1].method)
            /\ ~IsFunction(extracted.routes[1].method)
       /\ \A v \in VerbInputs :
            (ctrl = VerbController(v) /\ SpecStringForm(v) \notin ObjectPrototypeKeys) =>
              IsString(extracted.routes[1].method)
  /\ extracted.done =>
       /\ ~extracted.threw \/ ctrl.metadataThrows
       /\ ctrl = VerbController(Verb(0)) =>
            extracted.routes[1].method = <<"G", "E", "T">>
       /\ ctrl = VerbController(Verb(1)) =>
            extracted.routes[1].method = <<"P", "O", "S", "T">>
       /\ ctrl = VerbController(Verb(7)) =>
            extracted.routes[1].method = <<"A", "L", "L">>
       /\ ctrl = VerbController(Verb(8)) => extracted.routes[1].method = <<"8">>
       /\ ctrl = VerbController(Verb(11)) => extracted.routes[1].method = <<"1", "1">>
       /\ ctrl = VerbController(VerbText(S_get)) =>
            extracted.routes[1].method = <<"G", "E", "T">>
       /\ ctrl = VerbController(VerbText(<<"P", "u", "r", "g", "e">>)) =>
            extracted.routes[1].method = <<"P", "U", "R", "G", "E">>
       /\ ctrl = VerbController(VerbText(<<"1">>)) =>
            extracted.routes[1].method = <<"P", "O", "S", "T">>

\* an endpoint with the verb 'constructor' has been extracted: its record's
\* method is the function Object.prototype.constructor, not "CONSTRUCTOR"
C15_Witness ==
  /\ ExtractedFromClass
  /\ ctrl = VerbController(VerbText(S_constructor))
  /\ Len(extracted.routes) = 1
  /\ extracted.routes[1].method = InheritedMember(S_constructor)
  /\ extracted.routes[1].method # ToUpperCase(S_constructor)

\* the member of ctrl the i-th record names
MemberOfRecord(i) ==
  ctrl.members[CHOOSE j \in 1..Len(ctrl.members) : i \in RecordsOf(ctrl.members[j])]

\* the position at which a member was declared
DeclaredAt(member) == CHOOSE j \in 1..Len(ctrl.members) : ctrl.members[j] = member

\* no record names an accessor property or a member of the base class
NoAccessorNoInherited ==
  /\ \A j \in 1..Len(ctrl.members) :
       ~ctrl.members[j].callable => RecordsOf(ctrl.members[j]) = {}
  /\ \A j \in 1..Len(ctrl.inherited) : RecordsOf(ctrl.inherited[j]) = {}

\* C17 as stated: the records come in the declaration order of the
\* controller's own methods, the constructor excluded; members inherited
\* from a base class and accessor properties produce no record.
C17_DeclarationOrder ==
  ExtractedFromClass =>
    /\ \A i \in 1..Len(extracted.routes) :
         \E j \in 1..Len(ctrl.members) :
           IsEndpoint(ctrl.members[j]) /\ i \in RecordsOf(ctrl.members[j])
    /\ \A a, b \in 1..Len(extracted.routes) :
         a < b => DeclaredAt(MemberOfRecord(a)) < DeclaredAt(MemberOfRecord(b))
    /\ NoAccessorNoInherited

\* C17, amended: the records come in the order in which the prototype lists
\* its own property names: the methods whose names are array indices (the
\* string forms of the numbers 0 .. 2^32 - 2) first, in ascending numeric
\* order, then the other methods in declaration order (the constructor
\* excluded); members inherited from a base class and accessor properties
\* produce no record.
C17_OwnPropertyOrder ==
  ExtractedFromClass =>
    /\ \A i \in 1..Len(extracted.routes) :
         \E j \in 1..Len(ctrl.members) :
           IsEndpoint(ctrl.members[j]) /\ i \in RecordsOf(ctrl.members[j])
    /\ \A a, b \in 1..Len(extracted.routes) :
         a < b =>
           LET first == MemberOfRecord(a)
               second == MemberOfRecord(b)
           IN  IF IsArrayIndex(second.name)
               THEN /\ IsArrayIndex(first.name)
                    /\ NumeralBefore(first.name, second.name)
               ELSE \/ IsArrayIndex(first.name)
                    \/ DeclaredAt(first) < DeclaredAt(second)
    /\ NoAccessorNoInherited
    /\ ctrl = IndexNamedController =>
         /\ Len(extracted.routes) = 3
         /\ extracted.routes[1].handler = S_Ctrl \o <<".", "2">>
         /\ extracted.routes[2].handler = S_Ctrl \o <<".", "1", "0">>
         /\ extracted.routes[3].handler = S_Ctrl \o <<".">> \o S_list

\* the methods list, 4294967295, 4294967294 and 2, declared in this order,
\* have given the records of 2, 4294967294, list and 4294967295: 2^32 - 1 is
\* no array index and keeps its place after list
C17_Witness ==
  /\ ExtractedFromClass
  /\ ctrl = LargeIndexNamedController
  /\ Len(extracted.routes) = 4
  /\ extracted.routes[1].handler = S_Ctrl \o <<".", "2">>
  /\ extracted.routes[2].handler = S_Ctrl \o <<".">> \o MaxArrayIndex
  /\ extracted.routes[3].handler = S_Ctrl \o <<".">> \o S_list
  /\ extracted.routes[4].handler =
       S_Ctrl \o <<".", "4", "2", "9", "4", "9", "6", "7", "2", "9", "5">>

\* C18: when reading the metadata of one member raises, only that member is
\* skipped: the endpoints before it keep their records, the endpoints after
\* it still get theirs, in order, and the extraction returns normally.
C18_MemberFailureIsLocal ==
  (extracted.done /\ ctrl.isClass /\ ctrl.hasPrototype /\ ~ctrl.metadataThrows) =>
    /\ ~extracted.threw
    /\ \A j \in 1..Len(ctrl.members) :
         (IsOwnMethod(ctrl.members[j]) /\ ctrl.members[j].throws) =>
           /\ RecordsOf(ctrl.members[j]) = {}
           /\ \A k \in 1..Len(ctrl.members) :
                IsEndpoint(ctrl.members[k]) =>
                  Cardinality(RecordsOf(ctrl.members[k])) = 1
           /\ \A k1, k2 \in 1..Len(ctrl.members) :
                (k1 < j /\ j < k2 /\ IsEndpoint(ctrl.members[k1])
                   /\ IsEndpoint(ctrl.members[k2])) =>
                  \A a \in RecordsOf(ctrl.members[k1]), b \in RecordsOf(ctrl.members[k2]) :
                    a < b

\* an endpoint, a member that cannot be read, an endpoint: two records
C18_Witness ==
  /\ extracted.done
  /\ ~extracted.threw
  /\ Len(ctrl.members) = 4
  /\ IsEndpoint(ctrl.members[2])
  /\ ctrl.members[3].throws
  /\ IsEndpoint(ctrl.members[4])
  /\ Len(extracted.routes) = 2
  /\ extracted.routes[1].handler = S_Ctrl \o <<".">> \o S_method \o <<"1">>
  /\ extracted.routes[2].handler = S_Ctrl \o <<".">> \o S_method \o <<"3">>

(***************************************************************************)
(* Claims about the records in the RouteMap of a discovery run, checked    *)
(* under SpecClash.                                                        *)
(***************************************************************************)
\* C16: the handler of every record is "<controller class name>.<member
\* name>" of the controller and member it was extracted from: every record
\* stored under a key K names an endpoint method of a class called K that a
\* processed module declares, and so starts with "K.".
C16_HandlerNamesControllerAndMember ==
  \A i \in 1..Len(routeMap) :
    \A r \in 1..Len(routeMap[i].routes) :
      LET key == routeMap[i].name
          handler == routeMap[i].routes[r].handler
      IN  /\ StartsWith(handler, key \o <<".">>)
          /\ \E m \in processedModules : \E k \in 1..Len(ControllersOf(m)) :
               LET controller == ControllersOf(m)[k]
               IN  /\ controller.isClass
                   /\ controller.name = key
                   /\ \E j \in 1..Len(controller.members) :
                        /\ controller.members[j].callable
                        /\ controller.members[j].name # S_constructor
                        /\ controller.members[j].path.present
                        /\ controller.members[j].verb.present
                        /\ handler = key \o <<".">> \o controller.members[j].name
                        /\ Cardinality({q \in 1..Len(routeMap[i].routes) :
                                          routeMap[i].routes[q].handler = handler}) = 1

\* the second UsersController has been stored: its record is labelled
\* UsersController.search
C16_Witness ==
  /\ phase = "returned"
  /\ order = <<1, 2>>
  /\ Len(routeMap) = 2
  /\ routeMap[2].name = UsersController.name
  /\ routeMap[2].routes[1].handler =
       <<"U", "s", "e", "r", "s", "C", "o", "n", "t", "r", "o", "l", "l", "e", "r",
         ".", "s", "e", "a", "r", "c", "h">>

(***************************************************************************)
(* The extractor called on a drawn descriptor, or discovery run on the     *)
(* application whose controller lists hold entries that are not classes.   *)
(***************************************************************************)
NextControllers == NextExtract \/ Next

SpecControllers == (InitExtract \/ InitClash) /\ [][NextControllers]_vars

\* the extractor has returned an empty list, without an error, for a
\* descriptor that is not a class or has no prototype
EmptyForInvalidDescriptor ==
  (extracted.done /\ (~ctrl.isClass \/ (~ctrl.hasPrototype /\ ~ctrl.metadataThrows))) =>
    /\ ~extracted.threw
    /\ extracted.routes = <<>>

\* the walker is at an entry of a controllers list that is not a class
AtNonClassEntry ==
  /\ phase = "walking"
  /\ Top.pc = "controllers"
  /\ Top.ci <= Len(ControllersOf(Top.mod))
  /\ ~ControllersOf(Top.mod)[Top.ci].isClass

\* C19: the extractor returns an empty sequence and raises no error for a
\* null, undefined or non-class descriptor and for one without a prototype;
\* the walker passes over an entry of a controllers list that is not a
\* class: the step changes neither the map nor the course of the run, and
\* the list is continued with the next entry.
C19_InvalidDescriptorsSkipped ==
  /\ [](EmptyForInvalidDescriptor /\ NotAClass.name \notin MapKeys)
  /\ [][AtNonClassEntry =>
          /\ routeMap' = routeMap
          /\ phase' = phase
          /\ caught' = caught
          /\ Len(stack') = Len(stack)
          /\ stack'[Len(stack')].ci = Top.ci + 1
          /\ stack'[Len(stack')].pc = "controllers"]_vars

\* the extractor has been called on the object that is not a function, whose
\* prototype property holds an endpoint, and has returned the empty list
C19_Witness ==
  /\ extracted.done
  /\ ~extracted.threw
  /\ ctrl = ObjectController
  /\ extracted.routes = <<>>

(***************************************************************************)
(* listRoutes, route-scanner.ts:309-371.  console.error and console.log    *)
(* calls are recorded in stderr and stdout; exitCode is the argument of    *)
(* process.exit, NoExit while the process has not been terminated;         *)
(* rejected holds the message of the error the returned promise is         *)
(* rejected with, tried the loading strategies attempted so far, error the *)
(* message loadModule has rejected with and listRoutes has not yet caught, *)
(* locale the default locale of the host once displayRoutes has compared   *)
(* paths under it.  A message is the sequence of the texts it is put       *)
(* together from, outermost first.  The call is an async function: each    *)
(* action is what it does in one turn of the event loop, from one await to *)
(* the next.                                                               *)
(***************************************************************************)
\* how the import of the direct path ends: "none" when it succeeds, else the
\* kind of message of the error it throws
LoadErrors == {"none", "esm", "resolve", "other"}

\* what the loaded file exports: the class under its name, the class under
\* its name inside the default export, a default export only, nothing, or,
\* for a CommonJS file, the value null or undefined for module.exports
ExportShapes == {"named", "default.named", "default", "none", "null", "undefined"}

\* the two texts the catch block of listRoutes looks for in a message
S_Esm == "Cannot use import statement outside a module"
S_Resolve == "Cannot resolve module"

\* the resolved path of the entry file, its extension apart: one that holds
\* neither text, one in a directory named by the one and one in a
\* directory named by the other
PlainPath == "plain/app.module"

PathInputs ==
  {PlainPath, "Cannot resolve module/app.module",
   "Cannot use import statement outside a module/app.module"}

\* the class name asked for: one that holds neither text, and the two texts
PlainClass == "AppModule"

ClassNameInputs == {PlainClass, S_Resolve, S_Esm}

\* one of the strategies gives the module
Loads(e) ==
  e.fileExists /\ (e.urlLoads \/ e.directError = "none" \/ (e.isTs /\ e.requireLoads))

\* the module is what require returns
LoadsByRequire(e) ==
  e.fileExists /\ ~e.urlLoads /\ e.directError # "none" /\ e.isTs /\ e.requireLoads

\* the run puts the path into a message the catch block searches: the
\* message of the load failure (line 305) or of the missing class (line 332)
PathRead(e) ==
  /\ e.fileExists
  /\ \/ ~Loads(e)
     \/ e.exports = "none" /\ (e.nodeEnvTest \/ e.jestWorker)

\* the run puts the class name into a message the catch block searches: the
\* message of the missing class (line 332) or of the TypeError of line 323
ClassNameRead(e) ==
  /\ Loads(e)
  /\ \/ e.exports = "none" /\ (e.nodeEnvTest \/ e.jestWorker)
     \/ e.exports \in {"null", "undefined"}

\* what a listRoutes call may find.  An import gives a namespace object even
\* for a file whose module.exports is null or undefined, which is then a
\* file that exports nothing: the two shapes are drawn for a module that
\* require gives.  A path and a class name that hold one of the texts are
\* drawn for the runs that search them.
EnvInputs ==
  { e \in [fileExists : BOOLEAN, nodeEnvTest : BOOLEAN, jestWorker : BOOLEAN,
           urlLoads : BOOLEAN, directError : LoadErrors, isTs : BOOLEAN,
           requireLoads : BOOLEAN, exports : ExportShapes, json : BOOLEAN,
           path : PathInputs, className : ClassNameInputs] :
      /\ e.exports \in {"null", "undefined"} => LoadsByRequire(e)
      /\ e.path # PlainPath => PathRead(e)
      /\ e.className # PlainClass => ClassNameRead(e) }

\* only NODE_ENV is looked at
isTestEnvironmentNodeEnvOnly == env.nodeEnvTest

\* process.env.NODE_ENV === 'test' || process.env.JEST_WORKER_ID !== undefined
isTestEnvironment == env.nodeEnvTest \/ env.jestWorker

\* !existsSync(absPath)
FileMissing == ~env.fileExists

\* throw in the test environment, process.exit(1) otherwise
Abort(call, message) ==
  IF isTestEnvironment
  THEN [call EXCEPT !.pc = "rejected", !.rejected = message]
  ELSE [call EXCEPT !.pc = "exited", !.exitCode = 1]

\* the strategies of loadModule, in the order of the source
S_ImportUrl == "import file://"
S_ImportPath == "import path"
S_Require == "require"

\* the message of the error the import of the direct path throws
DirectErrorMessage ==
  IF env.directError = "esm" THEN <<S_Esm>>
  ELSE IF env.directError = "resolve" THEN <<S_Resolve>>
  ELSE <<"Unexpected token">>

\* require is tried whatever the extension of the path
RequireAppliesAlways == TRUE

\* line 284: modulePath.endsWith('.ts')
RequireApplies == env.isTs

\* lines 298, 301 and 305: the message loadModule rejects with, 'Cannot load
\* module "<path>": ...' around the message of the direct import's error,
\* which line 298 wraps in 'Failed to load module' when require has failed
\* too
LoadErrorMessage(requireFailed) ==
  <<"Cannot load module", env.path>>
  \o (IF requireFailed THEN <<"Failed to load module">> ELSE <<>>)
  \o DirectErrorMessage

\* loadModule returns the module to line 322
Loaded(call) == [call EXCEPT !.pc = "find", !.moduleLoaded = TRUE]

\* part.includes(text), for the parts messages are put together from
Holds(part, text) ==
  \/ part = text
  \/ text = S_Resolve /\ part = "Cannot resolve module/app.module"
  \/ text = S_Esm /\ part = "Cannot use import statement outside a module/app.module"

\* errorMessage.includes(text)
Includes(message, text) == \E i \in 1..Len(message) : Holds(message[i], text)

\* lines 346-370: the catch block prints what it makes of the message, then
\* rethrows in the test environment and exits with 1 otherwise
CatchAndAbort(call, message) ==
  LET printed ==
        IF Includes(message, S_Esm)
        THEN <<"Module system compatibility issue detected", "Suggestions",
               "1. compile first", "2. point to the compiled file",
               "3. check tsconfig.json", "4. Original error">>
        ELSE IF Includes(message, S_Resolve)
        THEN <<"Module resolution failed", "Suggestions", "1. check the path",
               "2. install dependencies", "3. use an absolute path",
               "4. Original error">>
        ELSE <<"Error during route extraction">>
  IN  Abort([call EXCEPT !.stderr = @ \o printed], message)

\* lines 310-322 and 268-275, the turn in which listRoutes is called: the
\* file is looked for and, when it exists, loadModule is called and starts
\* import(`file://${modulePath}`)
CheckFile ==
  /\ cli.pc = "start"
  /\ cli' = IF FileMissing
            THEN Abort([cli EXCEPT !.stderr = Append(@, "Cannot find file")],
                       <<"Cannot find file", env.path>>)
            ELSE [cli EXCEPT !.pc = "importUrl", !.tried = <<S_ImportUrl>>]
  /\ UNCHANGED <<app, runs, extractVars, pathVars, walkVars, env>>

\* lines 275-280, the turn in which the import of the file:// URL has
\* settled: the module is returned, or import(modulePath) is started
ImportUrlSettled ==
  /\ cli.pc = "importUrl"
  /\ cli' = IF env.urlLoads THEN Loaded(cli)
            ELSE [cli EXCEPT !.pc = "importPath", !.tried = Append(@, S_ImportPath)]
  /\ UNCHANGED <<app, runs, extractVars, pathVars, walkVars, env>>

\* lines 280-305, the turn in which the import of the direct path has
\* settled: the module is returned, or, for a path ending in '.ts',
\* require(modulePath) is called in the same turn (after an attempt to
\* register ts-node whose failure is ignored); when nothing has given the
\* module loadModule rejects
ImportPathSettled ==
  /\ cli.pc = "importPath"
  /\ cli' = IF env.directError = "none" THEN Loaded(cli)
            ELSE IF RequireApplies
            THEN LET required == [cli EXCEPT !.tried = Append(@, S_Require)]
                 IN  IF env.requireLoads THEN Loaded(required)
                     ELSE [required EXCEPT !.pc = "loadFailed",
                                           !.error = LoadErrorMessage(TRUE)]
            ELSE [cli EXCEPT !.pc = "loadFailed", !.error = LoadErrorMessage(FALSE)]
  /\ UNCHANGED <<app, runs, extractVars, pathVars, walkVars, env>>

\* lines 322 and 344-370, the turn in which listRoutes is resumed with the
\* rejection of loadModule: the catch block
CatchLoadError ==
  /\ cli.pc = "loadFailed"
  /\ cli' = CatchAndAbort(cli, cli.error)
  /\ UNCHANGED <<app, runs, extractVars, pathVars, walkVars, env>>

\* line 323: mod is null or undefined, so that mod[className] raises a
\* TypeError: require has given the module and module.exports is such a value
ModuleIsNullish ==
  /\ env.exports \in {"null", "undefined"}
  /\ cli.tried # <<>>
  /\ cli.tried[Len(cli.tried)] = S_Require

\* the message of that TypeError, which names the property read
NullishMessage ==
  << IF env.exports = "null" THEN "Cannot read properties of null"
     ELSE "Cannot read properties of undefined",
     env.className >>

\* lines 323 and 325: mod[className] || mod.default?.[className] || mod.default
\* is falsy
ClassMissing == env.exports \in {"none", "null", "undefined"}

\* line 332: `Cannot find class "${className}" in ${absPath}`
MissingClassMessage == <<"Cannot find class", env.className, env.path>>

\* lines 322-337, the turn in which listRoutes is resumed with the module
FindClass ==
  /\ cli.pc = "find"
  /\ cli' = IF ModuleIsNullish THEN CatchAndAbort(cli, NullishMessage)
            ELSE IF ClassMissing
            THEN LET reported ==
                       [cli EXCEPT !.stderr = @ \o <<"Cannot find class", "Available exports">>]
                 IN  IF isTestEnvironment
                     THEN CatchAndAbort(reported, MissingClassMessage)
                     ELSE Abort(reported, MissingClassMessage)
            ELSE [cli EXCEPT !.pc = "discover"]
  /\ UNCHANGED <<app, runs, extractVars, pathVars, walkVars, env>>

(***************************************************************************)
(* displayRoutes, route-scanner.ts:475-500.  A printed line is a record:   *)
(* its kind, and the name, method column, path and the two counts it       *)
(* shows.                                                                  *)
(***************************************************************************)
Line(kind, name, method, path, total, count) ==
  [line |-> kind, name |-> name, method |-> method, path |-> path,
   total |-> total, count |-> count]

HeaderLine == Line("header", <<>>, <<>>, <<>>, 0, 0)
NoRoutesLine == Line("no routes found", <<>>, <<>>, <<>>, 0, 0)
BlankLine == Line("blank", <<>>, <<>>, <<>>, 0, 0)
ControllerLine(name) == Line("controller", name, <<>>, <<>>, 0, 0)
RouteLine(method, path) == Line("route", <<>>, method, path, 0, 0)
SummaryLine(total, count) == Line("summary", <<>>, <<>>, <<>>, total, count)

\* the characters of names and paths by UTF-16 code unit
CodeUnitOrder == <<Slash>> \o DigitChars \o <<":">> \o UpperChars \o LowerChars

CodeUnit(c) == CHOOSE i \in 1..Len(CodeUnitOrder) : CodeUnitOrder[i] = c

\* the comparison of Array.prototype.sort() without a comparator: by code
\* unit, a proper prefix first
RECURSIVE CodeUnitBefore(_, _)
CodeUnitBefore(a, b) ==
  IF b = <<>> THEN FALSE
  ELSE IF a = <<>> THEN TRUE
  ELSE IF a[1] = b[1] THEN CodeUnitBefore(Tail(a), Tail(b))
  ELSE CodeUnit(a[1]) < CodeUnit(b[1])

\* The default locales of the host under which paths are compared.  Three
\* things in which the collations of locales differ bear on the paths the
\* model draws: which case comes first (the locale's own choice or its
\* extension -u-kf-upper), whether 'aa' is a letter of its own, and whether
\* z stands between s and t.  No locale has both of the last two, and so
\* there are six collations: the root collation (en-US), the root collation
\* with upper case first (mt-MT, en-u-kf-upper), 'aa' a letter (nb-NO,
\* da-u-kf-lower), 'aa' a letter and upper case first (da-DK), z before t
\* (et-EE), and z before t with upper case first (et-u-kf-upper).
Locales == {"en-US", "mt-MT", "nb-NO", "da-DK", "et-EE", "et-u-kf-upper"}

\* between strings that differ in case only, upper case comes first
UpperFirst(locale) == locale \in {"mt-MT", "da-DK", "et-u-kf-upper"}

\* z stands between s and t
ZBeforeT(locale) == locale \in {"et-EE", "et-u-kf-upper"}

\* aa, Aa and AA are one letter, which comes after z
AaIsLetter(locale) == locale \in {"nb-NO", "da-DK"}

\* the letters in the order of the locale's alphabet
Alphabet(locale) ==
  IF ZBeforeT(locale)
  THEN <<"a", "b", "c", "d", "e", "f", "g", "h", "i", "j", "k", "l", "m",
         "n", "o", "p", "q", "r", "s", "z", "t", "u", "v", "w", "x", "y">>
  ELSE LowerChars

\* the characters by primary weight in the collation of the locale:
\* punctuation, digits, letters, a letter's two cases weighing the same
CollationOrder(locale) == <<":", Slash>> \o DigitChars \o Alphabet(locale)

IsUpper(c) == \E j \in 1..Len(UpperChars) : UpperChars[j] = c

\* the number of characters the collation element at the head of str is
\* made of
ElementLength(locale, str) ==
  IF /\ AaIsLetter(locale)
     /\ Len(str) >= 2
     /\ <<str[1], str[2]>> \in {<<"a", "a">>, <<"A", "a">>, <<"A", "A">>}
  THEN 2
  ELSE 1

\* the primary weight of the collation element at the head of str: a
\* character's place in CollationOrder, and for the letter aa the place
\* after z
PrimaryWeight(locale, str) ==
  IF ElementLength(locale, str) = 2 THEN Len(CollationOrder(locale)) + 1
  ELSE LET lower == IF IsUpper(str[1])
                    THEN LowerChars[CHOOSE j \in 1..Len(UpperChars) :
                                      UpperChars[j] = str[1]]
                    ELSE str[1]
       IN  CHOOSE i \in 1..Len(CollationOrder(locale)) :
             CollationOrder(locale)[i] = lower

RECURSIVE PrimaryCompare(_, _, _)
PrimaryCompare(locale, a, b) ==
  IF a = <<>> /\ b = <<>> THEN 0
  ELSE IF a = <<>> THEN -1
  ELSE IF b = <<>> THEN 1
  ELSE LET la == ElementLength(locale, a)
           lb == ElementLength(locale, b)
       IN  IF la = lb /\ SubSeq(a, 1, la) = SubSeq(b, 1, lb)
           THEN PrimaryCompare(locale, SubSeq(a, la + 1, Len(a)),
                               SubSeq(b, lb + 1, Len(b)))
           ELSE LET wa == PrimaryWeight(locale, a)
                    wb == PrimaryWeight(locale, b)
                IN  IF wa < wb THEN -1
                    ELSE IF wa > wb THEN 1
                    ELSE PrimaryCompare(locale, SubSeq(a, la + 1, Len(a)),
                                        SubSeq(b, lb + 1, Len(b)))

\* between strings of equal primary weights the case of the first character
\* in which they differ decides
RECURSIVE CaseCompare(_, _, _)
CaseCompare(locale, a, b) ==
  IF a = <<>> \/ b = <<>> THEN 0
  ELSE IF a[1] = b[1] THEN CaseCompare(locale, Tail(a), Tail(b))
  ELSE IF IsUpper(b[1]) THEN (IF UpperFirst(locale) THEN 1 ELSE -1)
  ELSE (IF UpperFirst(locale) THEN -1 ELSE 1)

\* a.localeCompare(b) under the host's default locale: by primary weight,
\* and between strings that differ in case only, by case
LocaleCompare(locale, a, b) ==
  LET primary == PrimaryCompare(locale, a, b)
  IN  IF primary # 0 THEN primary ELSE CaseCompare(locale, a, b)

\* the route order is left as it is
SortRoutesNot(locale, routes) == routes

\* a route put into a sorted list, behind the routes that do not come after it
RECURSIVE InsertRoute(_, _, _)
InsertRoute(locale, sorted, route) ==
  IF sorted = <<>> THEN <<route>>
  ELSE IF LocaleCompare(locale, route.path, sorted[Len(sorted)].path) >= 0
  THEN Append(sorted, route)
  ELSE Append(InsertRoute(locale, SubSeq(sorted, 1, Len(sorted) - 1), route),
              sorted[Len(sorted)])

RECURSIVE SortRoutesFrom(_, _, _, _)
SortRoutesFrom(locale, routes, i, sorted) ==
  IF i > Len(routes) THEN sorted
  ELSE SortRoutesFrom(locale, routes, i + 1, InsertRoute(locale, sorted, routes[i]))

\* routes.sort((a, b) => a.path.localeCompare(b.path)): the sort is stable
SortRoutes(locale, routes) == SortRoutesFrom(locale, routes, 1, <<>>)

RECURSIVE InsertKey(_, _)
InsertKey(sorted, key) ==
  IF sorted = <<>> THEN <<key>>
  ELSE IF CodeUnitBefore(key, sorted[Len(sorted)])
  THEN Append(InsertKey(SubSeq(sorted, 1, Len(sorted) - 1), key), sorted[Len(sorted)])
  ELSE Append(sorted, key)

RECURSIVE SortedKeysFrom(_, _, _)
SortedKeysFrom(map, i, sorted) ==
  IF i > Len(map) THEN sorted
  ELSE SortedKeysFrom(map, i + 1, InsertKey(sorted, map[i].name))

\* Object.keys(routeMap).sort()
SortedKeys(map) == SortedKeysFrom(map, 1, <<>>)

RoutesOf(map, name) ==
  map[CHOOSE i \in 1..Len(map) : map[i].name = name].routes

\* String.prototype.padEnd(n)
PadEnd(str, n) == str \o [i \in 1..(n - Len(str)) |-> " "]

\* route.method.padEnd raises a TypeError: the method is no string
PadEndThrows(route) == ~IsString(route.method)

\* stands where a call has raised; it is not printed
Thrown == Line("thrown", <<>>, <<>>, <<>>, 0, 0)

EndsThrown(lines) == lines # <<>> /\ lines[Len(lines)] = Thrown

\* the forEach over the sorted routes: a line for each, up to the first
\* route whose method cannot be padded
RECURSIVE RouteLines(_, _)
RouteLines(routes, k) ==
  IF k > Len(routes) THEN <<>>
  ELSE IF PadEndThrows(routes[k]) THEN <<Thrown>>
  ELSE <<RouteLine(PadEnd(routes[k].method, 7), routes[k].path)>>
       \o RouteLines(routes, k + 1)

\* the forEach over the controllers, which ends where a route line raises
RECURSIVE ControllerBlocks(_, _, _, _)
ControllerBlocks(locale, map, controllers, i) ==
  IF i > Len(controllers) THEN <<>>
  ELSE LET block == <<ControllerLine(controllers[i])>>
                    \o RouteLines(SortRoutes(locale, RoutesOf(map, controllers[i])), 1)
       IN  IF EndsThrown(block) THEN block
           ELSE block \o <<BlankLine>> \o ControllerBlocks(locale, map, controllers, i + 1)

\* displayRoutes(map): the lines it prints, and whether it has raised
displayRoutes(locale, map) ==
  LET controllers == SortedKeys(map)
      blocks == ControllerBlocks(locale, map, controllers, 1)
  IN  IF Len(controllers) = 0
      THEN [lines |-> <<HeaderLine, NoRoutesLine>>, threw |-> FALSE]
      ELSE IF EndsThrown(blocks)
      THEN [lines |-> <<HeaderLine>> \o SubSeq(blocks, 1, Len(blocks) - 1),
            threw |-> TRUE]
      ELSE [lines |-> <<HeaderLine>>
                      \o blocks
                      \o <<SummaryLine(SumOver([i \in 1..Len(map) |-> Len(map[i].routes)],
                                               1..Len(map)),
                                       Len(controllers))>>,
            threw |-> FALSE]

\* the controllers whose routes displayRoutes has sorted: all of them, or
\* those up to the one under which a route line raised
RECURSIVE SortedControllers(_, _, _)
SortedControllers(map, controllers, i) ==
  IF i > Len(controllers) THEN {}
  ELSE {controllers[i]} \cup
       (IF \E k \in 1..Len(RoutesOf(map, controllers[i])) :
             PadEndThrows(RoutesOf(map, controllers[i])[k])
        THEN {}
        ELSE SortedControllers(map, controllers, i + 1))

\* the map after displayRoutes: the route lists it came to have been sorted
\* in place
AfterDisplay(locale, map) ==
  LET reached == SortedControllers(map, SortedKeys(map), 1)
  IN  [i \in 1..Len(map) |->
         IF map[i].name \in reached
         THEN [name |-> map[i].name, routes |-> SortRoutes(locale, map[i].routes)]
         ELSE map[i]]

\* what JSON.stringify makes of a record's method: a string as it is, a
\* function nothing (the property is left out), Object.prototype '{}'
JsonMethod(method) ==
  IF IsString(method) THEN method
  ELSE IF IsFunction(method) THEN <<"[left out]">>
  ELSE <<"{}">>

RECURSIVE JsonRoutes(_, _)
JsonRoutes(routes, k) ==
  IF k > Len(routes) THEN <<>>
  ELSE << [method |-> JsonMethod(routes[k].method), path |-> routes[k].path,
           handler |-> routes[k].handler] >>
       \o JsonRoutes(routes, k + 1)

RECURSIVE JsonEntries(_, _)
JsonEntries(map, i) ==
  IF i > Len(map) THEN <<>>
  ELSE << [name |-> map[i].name, routes |-> JsonRoutes(map[i].routes, 1)] >>
       \o JsonEntries(map, i + 1)

\* JSON.stringify(routeMap, null, 2)
JsonOf(map) == [line |-> "json", map |-> JsonEntries(map, 1)]

\* the message of the TypeError route.method.padEnd(7) raises
S_PadEndError == "route.method.padEnd is not a function"

\* lines 338-370, the turn in which listRoutes is resumed with the RouteMap:
\* console.log(JSON.stringify(routeMap, null, 2)) or displayRoutes(routeMap),
\* which compares paths under the default locale of the host; an error that
\* displayRoutes raises is caught by the catch block
Output ==
  /\ cli.pc = "discover"
  /\ phase = "returned"
  /\ IF env.json
     THEN /\ cli' = [cli EXCEPT !.pc = "done", !.stdout = Append(@, JsonOf(routeMap))]
          /\ routeMap' = routeMap
     ELSE \E locale \in Locales :
            LET displayed == displayRoutes(locale, routeMap)
                printed == [cli EXCEPT !.stdout = @ \o displayed.lines,
                                       !.locale = locale]
            IN  /\ cli' = IF displayed.threw
                          THEN CatchAndAbort(printed, <<S_PadEndError>>)
                          ELSE [printed EXCEPT !.pc = "done"]
                /\ routeMap' = AfterDisplay(locale, routeMap)
  /\ UNCHANGED <<app, runs, extractVars, pathVars, env, phase, prefix, stack,
                 processedModules, routeProto, loaded, importsOf, faultOf,
                 ctrlReads, impReads, calls, order, caught, steps>>

InitCli ==
  /\ segs = <<Undefined, Undefined, Undefined>>
  /\ built = Undefined
  /\ prefix \in PrefixInputs
  /\ app = "malformed"
  /\ NoWalk
  /\ NoExtract
  /\ env \in EnvInputs
  /\ cli = [CliOff EXCEPT !.pc = "start"]

NextCli ==
  \/ CheckFile
  \/ ImportUrlSettled
  \/ ImportPathSettled
  \/ CatchLoadError
  \/ FindClass
  \/ Output
  \/ Next

SpecCli == InitCli /\ [][NextCli]_vars

\* C20: when the entry path names no existing file the run is fatal:
\* listRoutes reports 'Cannot find file' and exits with a non-zero code, or,
\* when NODE_ENV is 'test' or JEST_WORKER_ID is set, rejects with an error
\* instead of exiting; the module is not loaded, discovery is not run and
\* nothing is printed to the output.
C20_MissingFileIsFatal ==
  (~env.fileExists /\ cli.pc # "start") =>
    /\ cli.stderr = <<"Cannot find file">>
    /\ IF env.nodeEnvTest \/ env.jestWorker
       THEN /\ cli.pc = "rejected"
            /\ cli.rejected = <<"Cannot find file", env.path>>
            /\ cli.exitCode = NoExit
       ELSE /\ cli.pc = "exited"
            /\ cli.exitCode # 0 /\ cli.exitCode # NoExit
            /\ cli.rejected = <<>>
    /\ ~cli.moduleLoaded
    /\ phase = "idle"
    /\ processedModules = {}
    /\ routeMap = <<>>
    /\ cli.stdout = <<>>

\* the file is missing and only JEST_WORKER_ID is set: the call has rejected
C20_Witness ==
  /\ ~env.fileExists
  /\ env.jestWorker
  /\ ~env.nodeEnvTest
  /\ cli.pc = "rejected"
  /\ cli.rejected = <<"Cannot find file", PlainPath>>
  /\ cli.stderr = <<"Cannot find file">>

\* the run is fatal and no discovery was run and no output produced: the
\* call has rejected with the message (test environment) or the process has
\* exited with 1
FatalWith(message) ==
  /\ IF env.nodeEnvTest \/ env.jestWorker
     THEN /\ cli.pc = "rejected"
          /\ cli.rejected = message
          /\ cli.exitCode = NoExit
     ELSE /\ cli.pc = "exited"
          /\ cli.exitCode # 0 /\ cli.exitCode # NoExit
          /\ cli.rejected = <<>>
  /\ phase = "idle"
  /\ processedModules = {}
  /\ routeMap = <<>>
  /\ cli.stdout = <<>>

\* the run has ended on the missing class, which it has reported
EndedOnMissingClass ==
  /\ Len(cli.stderr) >= 2
  /\ SubSeq(cli.stderr, 1, 2) = <<"Cannot find class", "Available exports">>
  /\ FatalWith(MissingClassMessage)

\* the first line the catch block prints for a message that holds the given
\* texts
CatchLineFor(texts) ==
  IF S_Esm \in texts THEN "Module system compatibility issue detected"
  ELSE IF S_Resolve \in texts THEN "Module resolution failed"
  ELSE "Error during route extraction"

\* the texts the catch block looks for that the class name and the path hold
TextsOfClassName == {env.className} \cap {S_Esm, S_Resolve}

TextsOfPath ==
  {t \in {S_Esm, S_Resolve} : Holds(env.path, t)}

\* the file has no export named as the requested class
NoNamedExport == env.exports \in {"default", "none", "null", "undefined"}

\* C21 as stated: whenever the loaded file has no export named as the
\* requested class, the run is fatal: 'Cannot find class' is reported, the
\* process has exited with a non-zero code or the call has rejected (test
\* environment), no discovery was run and no output produced.
C21_NoNamedExportIsFatal ==
  (cli.moduleLoaded /\ cli.pc # "find" /\ NoNamedExport) =>
    /\ cli.stderr # <<>>
    /\ cli.stderr[1] = "Cannot find class"
    /\ cli.pc = IF env.nodeEnvTest \/ env.jestWorker THEN "rejected" ELSE "exited"
    /\ phase = "idle"
    /\ cli.stdout = <<>>

\* C21, what the code does: when the loaded module is null or undefined
\* (module.exports of a file that require has loaded) the lookup of the
\* class raises a TypeError: the run is fatal, but 'Cannot find class' is
\* not reported, only what the catch block makes of the TypeError.  When
\* the file has neither an export named as the requested class nor a
\* default export, listRoutes reports 'Cannot find class' and exits with a
\* non-zero code or, in the test environment, rejects after the catch block
\* has printed its lines too (the hints on module resolution or
\* compatibility when the class name or the path holds their text), with no
\* discovery run and no output produced.  A file with a default export
\* only is not an error: the default export is taken for the entry module
\* and the run goes on to discovery.
C21_MissingClassIsFatal ==
  (cli.moduleLoaded /\ cli.pc # "find") =>
    IF env.exports \in {"null", "undefined"}
    THEN /\ cli.stderr # <<>>
         /\ cli.stderr[1] = CatchLineFor(TextsOfClassName)
         /\ \A i \in 1..Len(cli.stderr) : cli.stderr[i] # "Cannot find class"
         /\ FatalWith(NullishMessage)
         /\ cli.exitCode \in {NoExit, 1}
    ELSE IF env.exports = "none"
    THEN /\ EndedOnMissingClass
         /\ IF env.nodeEnvTest \/ env.jestWorker
            THEN /\ Len(cli.stderr) > 2
                 /\ cli.stderr[3] = CatchLineFor(TextsOfClassName \cup TextsOfPath)
            ELSE Len(cli.stderr) = 2
    ELSE /\ \A i \in 1..Len(cli.stderr) : cli.stderr[i] # "Cannot find class"
         /\ cli.rejected # MissingClassMessage
         /\ \/ cli.pc = "discover"
            \/ phase = "returned" /\ cli.stdout # <<>>

\* require has given a module that is null, outside the test environment:
\* the process has exited with 1 after 'Error during route extraction', and
\* 'Cannot find class' was not reported
C21_Witness ==
  /\ cli.moduleLoaded
  /\ env.exports = "null"
  /\ env.className = PlainClass
  /\ ~env.nodeEnvTest /\ ~env.jestWorker
  /\ cli.tried = <<S_ImportUrl, S_ImportPath, S_Require>>
  /\ cli.pc = "exited"
  /\ cli.exitCode = 1
  /\ cli.stderr = <<"Error during route extraction">>
  /\ cli.stdout = <<>>

\* the loading strategies in the order stated, and what the environment
\* makes of each
LoaderStrategies == <<S_ImportUrl, S_ImportPath, S_Require>>

StrategySucceeds(strategy) ==
  IF strategy = S_ImportUrl THEN env.urlLoads
  ELSE IF strategy = S_ImportPath THEN env.directError = "none"
  ELSE env.requireLoads

StrategyApplies(strategy) == strategy # S_Require \/ env.isTs

\* loadModule has settled: no import is under way
LoadSettled == cli.pc \notin {"start", "importUrl", "importPath"}

\* C27: once loadModule has been called, the strategies it has tried are an
\* initial part of (import by file:// URL, import by direct path, require),
\* with require tried only for a path ending in .ts, and every strategy
\* tried before the last one has failed; while an import is under way it is
\* the last strategy tried and nothing is loaded, printed or ended.  Once
\* loadModule has settled the module is loaded exactly when the last
\* strategy tried succeeded.  When the module is not loaded every applicable
\* strategy was tried, the error's message starts with 'Cannot load module',
\* and listRoutes, once it has caught the error, has exited with a non-zero
\* code, or rejected with that error in the test environment, with no
\* discovery run and no output.
C27_LoaderStrategyOrder ==
  (env.fileExists /\ cli.pc # "start") =>
    /\ \E n \in 1..Len(LoaderStrategies) : cli.tried = SubSeq(LoaderStrategies, 1, n)
    /\ \A i \in 1..Len(cli.tried) : StrategyApplies(cli.tried[i])
    /\ \A i \in 1..(Len(cli.tried) - 1) : ~StrategySucceeds(cli.tried[i])
    /\ cli.pc = "importUrl" => cli.tried = <<S_ImportUrl>>
    /\ cli.pc = "importPath" => cli.tried = <<S_ImportUrl, S_ImportPath>>
    /\ ~LoadSettled =>
         /\ ~cli.moduleLoaded
         /\ cli.stderr = <<>> /\ cli.stdout = <<>>
         /\ cli.exitCode = NoExit /\ cli.rejected = <<>>
         /\ phase = "idle"
    /\ LoadSettled =>
         /\ cli.moduleLoaded <=> StrategySucceeds(cli.tried[Len(cli.tried)])
         /\ ~cli.moduleLoaded =>
              /\ \A i \in 1..Len(LoaderStrategies) :
                   StrategyApplies(LoaderStrategies[i]) =>
                     \E j \in 1..Len(cli.tried) : cli.tried[j] = LoaderStrategies[i]
              /\ cli.error # <<>>
              /\ cli.error[1] = "Cannot load module"
              /\ IF cli.pc = "loadFailed"
                 THEN /\ cli.stderr = <<>>
                      /\ cli.exitCode = NoExit /\ cli.rejected = <<>>
                 ELSE /\ IF env.nodeEnvTest \/ env.jestWorker
                         THEN /\ cli.pc = "rejected"
                              /\ cli.rejected = cli.error
                              /\ cli.exitCode = NoExit
                         ELSE /\ cli.pc = "exited"
                              /\ cli.exitCode # 0 /\ cli.exitCode # NoExit
                      /\ cli.stderr # <<>>
              /\ phase = "idle"
              /\ processedModules = {}
              /\ routeMap = <<>>
              /\ cli.stdout = <<>>

\* a .ts path none of the three strategies can load, in the test
\* environment: all three were tried and the call has rejected
C27_Witness ==
  /\ env.isTs
  /\ cli.tried = <<S_ImportUrl, S_ImportPath, S_Require>>
  /\ ~cli.moduleLoaded
  /\ cli.pc = "rejected"
  /\ cli.rejected = <<"Cannot load module", PlainPath, "Failed to load module", S_Esm>>
  /\ cli.stderr[1] = "Module system compatibility issue detected"

\* the entry file exists, was loaded, and the entry class was found in it
EntryClassFound ==
  /\ cli.moduleLoaded
  /\ env.exports \in {"named", "default.named", "default"}
  /\ cli.pc # "find"

\* one route listing is on the output: the RouteMap as JSON, or the lines of
\* displayRoutes, from the header to the summary
ListingEmitted ==
  /\ cli.stdout # <<>>
  /\ IF env.json
     THEN cli.stdout = <<JsonOf(routeMap)>>
     ELSE /\ cli.stdout[1] = HeaderLine
          /\ cli.stdout[Len(cli.stdout)].line \in {"summary", "no routes found"}

\* C22 as stated: once the entry file exists, has loaded and the entry class
\* is found, the run never exits, never rejects, prints nothing to stderr
\* and no error leaves discovery, whatever the metadata in the graph: until
\* it is done the call can take a step (discovery can start, one of its
\* calls is active, or it has returned and the listing can be printed),
\* discovery takes no more steps than the graph allows, and when the call
\* is done discovery has returned and a route listing has been emitted.
C22_OnlyFatalCategoriesAbort ==
  EntryClassFound =>
    /\ cli.pc \in {"discover", "done"}
    /\ cli.exitCode = NoExit
    /\ cli.rejected = <<>>
    /\ cli.stderr = <<>>
    /\ phase \in {"idle", "walking", "returned"}
    /\ steps <= StepBound
    /\ cli.pc = "discover" =>
         /\ cli.stdout = <<>>
         /\ phase = "idle" => extracted = NotExtracted
         /\ phase = "walking" => stack # <<>> /\ Len(stack) < MaxDepth
    /\ cli.pc = "done" => phase = "returned" /\ ListingEmitted

\* a record of the RouteMap whose method is no string
NonStringMethodFound ==
  \E i \in 1..Len(routeMap) :
    \E k \in 1..Len(routeMap[i].routes) : ~IsString(routeMap[i].routes[k].method)

\* the run has ended in the catch block on the TypeError of displayRoutes
EndedOnPadEnd ==
  /\ cli.stderr = <<"Error during route extraction">>
  /\ IF env.nodeEnvTest \/ env.jestWorker
     THEN /\ cli.pc = "rejected"
          /\ cli.rejected = <<S_PadEndError>>
          /\ cli.exitCode = NoExit
     ELSE /\ cli.pc = "exited"
          /\ cli.exitCode = 1
          /\ cli.rejected = <<>>
  /\ cli.stdout # <<>>
  /\ cli.stdout[1] = HeaderLine
  /\ \A j \in 1..Len(cli.stdout) : cli.stdout[j].line # "summary"

\* C22, what the code does: once the entry file exists, has loaded and the
\* entry class is found, no metadata read that fails ends the run, discovery
\* returns within the steps the graph allows, and the run ends with a route
\* listing, except when a member's verb metadata names a member of
\* Object.prototype and the listing is not JSON: the record's method is then
\* no string, displayRoutes raises under the controller of that record, and
\* the run exits with 1 or rejects after a part of the listing.
C22_AbortsOnNonStringMethodOnly ==
  EntryClassFound =>
    /\ phase \in {"idle", "walking", "returned"}
    /\ steps <= StepBound
    /\ cli.pc \in {"discover", "done", "rejected", "exited"}
    /\ cli.pc = "discover" =>
         /\ cli.stdout = <<>> /\ cli.stderr = <<>>
         /\ cli.exitCode = NoExit /\ cli.rejected = <<>>
         /\ phase = "idle" => extracted = NotExtracted
         /\ phase = "walking" => stack # <<>> /\ Len(stack) < MaxDepth
    /\ cli.pc = "done" =>
         /\ phase = "returned" /\ ListingEmitted
         /\ cli.stderr = <<>> /\ cli.exitCode = NoExit /\ cli.rejected = <<>>
         /\ env.json \/ ~NonStringMethodFound
    /\ cli.pc \in {"rejected", "exited"} =>
         /\ phase = "returned"
         /\ ~env.json
         /\ NonStringMethodFound
         /\ EndedOnPadEnd

\* the entry module imports a module whose controller declares the verb
\* 'constructor'; no metadata read has failed, the listing is not JSON, and
\* the run has exited with 1 after the controller line of that controller
C22_Witness ==
  /\ EntryClassFound
  /\ cli.pc = "exited"
  /\ cli.exitCode = 1
  /\ FaultsUsed = 0
  /\ ~env.json
  /\ order = <<1, 2>>
  /\ Len(RoutesUnder(LegacyController.name)) = 2
  /\ RoutesUnder(LegacyController.name)[1].method = InheritedMember(S_constructor)
  /\ cli.stdout[2] = ControllerLine(AdminController.name)
  /\ cli.stdout[Len(cli.stdout)] = ControllerLine(LegacyController.name)
  /\ cli.stderr = <<"Error during route extraction">>

(***************************************************************************)
(* displayRoutes on its own: the RouteMap is drawn from the maps of up to  *)
(* MaxDisplayControllers controllers of distinct names with up to          *)
(* MaxDisplayRoutes routes each; the route at position k of a list carries *)
(* the k-th method, which tells the routes of equal path apart.  The paths *)
(* are such that the locales order them differently.                       *)
(***************************************************************************)
MaxDisplayControllers == 2
MaxDisplayRoutes == 3

DisplayNames == { <<"A", "d">>, <<"a">> }

DisplayPaths ==
  { <<Slash>>, <<Slash, "a", "a">>, <<Slash, "A", "a">>, <<Slash, "t">>, <<Slash, "z">> }

DisplayMethods == <<S_GET, S_DELETE, S_OPTIONS, S_POST>>

\* the route lists of n routes, and those of one to MaxDisplayRoutes routes
RECURSIVE RouteListsOf(_)
RouteListsOf(n) ==
  IF n = 0 THEN {<<>>}
  ELSE { Append(list, [method |-> DisplayMethods[n], path |-> path,
                       handler |-> <<"h">> \o NumberToString(n)]) :
           list \in RouteListsOf(n - 1), path \in DisplayPaths }

DisplayRouteLists == UNION { RouteListsOf(n) : n \in 1..MaxDisplayRoutes }

InitDisplay ==
  /\ segs = <<Undefined, Undefined, Undefined>>
  /\ built = Undefined
  /\ prefix = Undefined
  /\ app = "test"
  /\ phase = "idle"
  /\ stack = <<>>
  /\ processedModules = {}
  /\ \E n \in 0..MaxDisplayControllers :
       \E names \in [1..n -> DisplayNames], lists \in [1..n -> DisplayRouteLists] :
         /\ \A i, j \in 1..n : i # j => names[i] # names[j]
         /\ routeMap = [i \in 1..n |-> [name |-> names[i], routes |-> lists[i]]]
  /\ routeProto = ObjectPrototype
  /\ loaded = {}
  /\ importsOf = [m \in Modules |-> <<>>]
  /\ faultOf = [m \in Modules |-> NoFault]
  /\ ctrlReads = [m \in Modules |-> 0]
  /\ impReads = [m \in Modules |-> 0]
  /\ calls = {}
  /\ order = <<>>
  /\ caught = {}
  /\ steps = 0
  /\ runs = NoRuns
  /\ NoExtract
  /\ env = NoEnv
  /\ cli = [CliOff EXCEPT !.pc = "display"]

\* displayRoutes(routeMap), under the default locale of the host
Display ==
  /\ cli.pc = "display"
  /\ \E locale \in Locales :
       LET displayed == displayRoutes(locale, routeMap)
       IN  /\ cli' = [cli EXCEPT !.pc = IF displayed.threw THEN "threw" ELSE "displayed",
                                 !.stdout = displayed.lines,
                                 !.locale = locale]
           /\ routeMap' = AfterDisplay(locale, routeMap)
  /\ UNCHANGED <<app, runs, extractVars, pathVars, env, phase, prefix, stack,
                 processedModules, routeProto, loaded, importsOf, faultOf,
                 ctrlReads, impReads, calls, order, caught, steps>>

NextDisplay == Display

SpecDisplay == InitDisplay /\ [][NextDisplay]_vars

\* the positions of the controller lines printed, and the route lines that
\* follow the controller line at position i
ControllerLinesAt == {i \in 1..Len(cli.stdout) : cli.stdout[i].line = "controller"}

RouteLinesAfter(i) ==
  {j \in (i + 1)..Len(cli.stdout) :
     \A k \in (i + 1)..j : cli.stdout[k].line = "route"}

\* the position in its list of the route a route line was printed for
ListedAt(routeLine) ==
  CHOOSE k \in 1..Len(DisplayMethods) : PadEnd(DisplayMethods[k], 7) = routeLine.method

\* the controller lines are in ascending order of name (by code unit, so
\* that every upper-case letter comes before every lower-case one) and there
\* is one for each key of the map
ControllersListedInOrder ==
  /\ \A i, j \in ControllerLinesAt :
       i < j => CodeUnitBefore(cli.stdout[i].name, cli.stdout[j].name)
  /\ {cli.stdout[i].name : i \in ControllerLinesAt} = MapKeys

\* the paths of the route lines printed, in the order printed
RECURSIVE PathsPrinted(_)
PathsPrinted(j) ==
  IF j > Len(cli.stdout) THEN <<>>
  ELSE (IF cli.stdout[j].line = "route" THEN <<cli.stdout[j].path>> ELSE <<>>)
       \o PathsPrinted(j + 1)

\* a controller with the routes /aa, /Aa and /t is listed as the locale has
\* them
OrderOfTheLocale ==
  (/\ Len(routeMap) = 1
   /\ {routeMap[1].routes[k].path : k \in 1..Len(routeMap[1].routes)}
        = { <<Slash, "a", "a">>, <<Slash, "A", "a">>, <<Slash, "t">> }) =>
    PathsPrinted(1) =
      IF cli.locale = "da-DK"
      THEN << <<Slash, "t">>, <<Slash, "A", "a">>, <<Slash, "a", "a">> >>
      ELSE IF cli.locale = "nb-NO"
      THEN << <<Slash, "t">>, <<Slash, "a", "a">>, <<Slash, "A", "a">> >>
      ELSE IF cli.locale \in {"mt-MT", "et-u-kf-upper"}
      THEN << <<Slash, "A", "a">>, <<Slash, "a", "a">>, <<Slash, "t">> >>
      ELSE << <<Slash, "a", "a">>, <<Slash, "A", "a">>, <<Slash, "t">> >>

\* a controller with the routes / and /z and /t: z before t in the
\* Estonian collation only
OrderOfTheAlphabet ==
  (/\ Len(routeMap) = 1
   /\ {routeMap[1].routes[k].path : k \in 1..Len(routeMap[1].routes)}
        = { <<Slash>>, <<Slash, "t">>, <<Slash, "z">> }) =>
    PathsPrinted(1) =
      IF cli.locale \in {"et-EE", "et-u-kf-upper"}
      THEN << <<Slash>>, <<Slash, "z">>, <<Slash, "t">> >>
      ELSE << <<Slash>>, <<Slash, "t">>, <<Slash, "z">> >>

\* under each controller line stand the routes of that controller, one line
\* each with the method padded to seven characters, in ascending order of
\* path as localeCompare has it under the locale of the host, routes of
\* equal path in the order of the list; a blank line follows
RoutesListedInOrder ==
  \A i \in ControllerLinesAt :
    LET block == RouteLinesAfter(i)
        routes == RoutesUnder(cli.stdout[i].name)
    IN  /\ Cardinality(block) = Len(routes)
        /\ cli.stdout[i + Len(routes) + 1] = BlankLine
        /\ \A k \in 1..Len(routes) :
             \E j \in block :
               /\ cli.stdout[j].method = PadEnd(routes[k].method, 7)
               /\ cli.stdout[j].path = routes[k].path
               /\ Len(cli.stdout[j].method) >= 7
        /\ \A j1, j2 \in block :
             j1 < j2 =>
               \/ LocaleCompare(cli.locale, cli.stdout[j1].path, cli.stdout[j2].path) < 0
               \/ /\ LocaleCompare(cli.locale, cli.stdout[j1].path, cli.stdout[j2].path) = 0
                  /\ ListedAt(cli.stdout[j1]) < ListedAt(cli.stdout[j2])

\* the last line is the summary, with the number of records and of keys
SummaryReportsTotals ==
  /\ cli.stdout # <<>>
  /\ cli.stdout[Len(cli.stdout)] = SummaryLine(TotalRoutes, Len(routeMap))

\* C24 as stated: the rendering of any RouteMap lists the controllers and
\* their routes in order and ends with the summary line.
C24_AnyMapHasSummary ==
  cli.pc = "displayed" =>
    /\ ControllersListedInOrder
    /\ RoutesListedInOrder
    /\ SummaryReportsTotals

\* C24: the rendering starts with the header.  For a RouteMap with at least
\* one controller it lists the controllers in ascending alphabetical order
\* of name (the order Array.prototype.sort gives strings, by code unit),
\* under each its routes in ascending path order (the order localeCompare
\* gives paths under the default locale of the host, whichever it is) with
\* routes of equal path in their relative order, and ends with the summary
\* line reporting the total number of records and the number of
\* controllers.  For the empty RouteMap it is the header and the line 'No
\* routes found', without a summary line.
C24_RenderingSortedAndCounted ==
  /\ cli.pc # "threw"
  /\ cli.pc = "displayed" =>
       /\ cli.stdout[1] = HeaderLine
       /\ IF routeMap = <<>>
          THEN cli.stdout = <<HeaderLine, NoRoutesLine>>
          ELSE /\ ControllersListedInOrder
               /\ RoutesListedInOrder
               /\ OrderOfTheLocale
               /\ OrderOfTheAlphabet
               /\ SummaryReportsTotals
               /\ Len(cli.stdout) = 2 + TotalRoutes + 2 * Len(routeMap)

\* under da-DK, two controllers inserted against the order of their names,
\* the second with the routes /aa, /t, /aa: the rendering has /t first and
\* the two routes of /aa in the order of the list
C24_Witness ==
  /\ cli.pc = "displayed"
  /\ cli.locale = "da-DK"
  /\ Len(routeMap) = 2
  /\ routeMap[1].name = <<"a">>
  /\ routeMap[2].name = <<"A", "d">>
  /\ cli.stdout[2] = ControllerLine(<<"A", "d">>)
  /\ cli.stdout[3] = RouteLine(PadEnd(S_DELETE, 7), <<Slash, "t">>)
  /\ cli.stdout[4] = RouteLine(PadEnd(S_GET, 7), <<Slash, "a", "a">>)
  /\ cli.stdout[5] = RouteLine(PadEnd(S_OPTIONS, 7), <<Slash, "a", "a">>)
  /\ cli.stdout[Len(cli.stdout)] = SummaryLine(4, 2)

\* the module an import entry leads to, 0 when it leads to none
TargetOf(entry) == IF entry.kind \in {"class", "dynamic"} THEN entry.module ELSE 0

SeqToSet(seq) == {seq[i] : i \in 1..Len(seq)}

\* the modules in depth-first pre-order from module m on, given the modules
\* met before: a module is listed where it is first met, then, unless its
\* processing failed, what its imports lead to, import by import in the
\* order declared
RECURSIVE PreorderFrom(_, _), PreorderOver(_, _, _)
PreorderFrom(m, met) ==
  IF m \in SeqToSet(met) THEN met
  ELSE IF m \in caught THEN Append(met, m)
  ELSE PreorderOver(importsOf[m], 1, Append(met, m))

PreorderOver(entries, i, met) ==
  IF i > Len(entries) THEN met
  ELSE PreorderOver(entries, i + 1,
                    IF TargetOf(entries[i]) = 0 THEN met
                    ELSE PreorderFrom(TargetOf(entries[i]), met))

\* the controllers of module m that were extracted with records: the
\* positions, in list order, before the one a failure stopped the module at
StoredPositions(m) ==
  {k \in RouteControllers(m) :
     /\ faultOf[m].at # "controllers"
     /\ faultOf[m].at = "controller" => k < faultOf[m].k}

RECURSIVE NamesOfModule(_, _)
NamesOfModule(m, k) ==
  IF k > Len(ControllersOf(m)) THEN <<>>
  ELSE (IF k \in StoredPositions(m) THEN <<ControllersOf(m)[k].name>> ELSE <<>>)
       \o NamesOfModule(m, k + 1)

\* the names records were found under, in the order modules are listed in
\* and, within a module, in the order of its controllers list
RECURSIVE NamesAlong(_, _)
NamesAlong(modules, i) ==
  IF i > Len(modules) THEN <<>>
  ELSE NamesOfModule(modules[i], 1) \o NamesAlong(modules, i + 1)

RECURSIVE FirstOccurrences(_, _)
FirstOccurrences(names, i) ==
  IF i > Len(names) THEN <<>>
  ELSE (IF \E j \in 1..(i - 1) : names[j] = names[i] THEN <<>> ELSE <<names[i]>>)
       \o FirstOccurrences(names, i + 1)

\* the names that have a key, in the order in which they were first found
\* with records along the processing order
FirstFound ==
  SelectSeq(FirstOccurrences(NamesAlong(order, 1), 1), LAMBDA name : name # S_proto)

\* C23 as stated: while a module's own controllers are being read and
\* extracted no call has been made for any of its imports; when discovery
\* has returned the modules were processed in depth-first pre-order of the
\* import lists as declared (everything an earlier import leads to before a
\* later import is started), and the keys of the RouteMap stand in the
\* order in which the controller names were first found with records along
\* that order.
C23_DepthFirstPreorder ==
  /\ \A d \in 1..Len(stack) :
       stack[d].pc \in {"readControllers", "controllers"} => NoCallFrom(stack[d].mod)
  /\ phase = "returned" =>
       /\ order = PreorderFrom(EntryModule, <<>>)
       /\ Len(routeMap) = Len(FirstFound)
       /\ \A i \in 1..Len(routeMap) : routeMap[i].name = FirstFound[i]

\* the place of a name in FirstFound
FoundAt(name) == CHOOSE i \in 1..Len(FirstFound) : FirstFound[i] = name

\* C23, amended: while a module's own controllers are being read and
\* extracted no call has been made for any of its imports; when discovery
\* has returned the modules were processed in depth-first pre-order of the
\* import lists as declared, and the keys of the RouteMap are the names
\* found with records, in the key order of an object: the names that are
\* array indices first, in ascending numeric order, then the other names in
\* the order in which they were first found.
C23_PreorderAndKeyOrder ==
  /\ \A d \in 1..Len(stack) :
       stack[d].pc \in {"readControllers", "controllers"} => NoCallFrom(stack[d].mod)
  /\ phase = "returned" =>
       /\ order = PreorderFrom(EntryModule, <<>>)
       /\ Len(routeMap) = Len(FirstFound)
       /\ MapKeys = SeqToSet(FirstFound)
       /\ \A i, j \in 1..Len(routeMap) :
            i < j =>
              IF IsArrayIndex(routeMap[i].name)
              THEN IsArrayIndex(routeMap[j].name)
                     => NumeralBefore(routeMap[i].name, routeMap[j].name)
              ELSE /\ ~IsArrayIndex(routeMap[j].name)
                   /\ FoundAt(routeMap[i].name) < FoundAt(routeMap[j].name)

\* the entry module imports modules 2, 3 and 4 and module 2 imports module
\* 5: module 5 was processed before modules 3 and 4, the controller named 10
\* of module 5 was found before the controller named 7 of module 4 and both
\* after the controllers of the entry module, and the keys 7 and 10 stand
\* first, in this order
C23_Witness ==
  /\ phase = "returned"
  /\ importsOf[1] = <<ClassRef(2), ClassRef(3), ClassRef(4)>>
  /\ importsOf[2] = <<ClassRef(5)>>
  /\ FaultsUsed = 0
  /\ order = <<1, 2, 5, 3, 4>>
  /\ Len(routeMap) = 5
  /\ routeMap[1].name = <<"7">>
  /\ routeMap[2].name = <<"1", "0">>
  /\ routeMap[3].name = TestController.name
  /\ routeMap[4].name = UsersController.name
  /\ routeMap[5].name = FeatureController(4).name
  /\ FirstFound = << TestController.name, UsersController.name, <<"1", "0">>,
                     FeatureController(4).name, <<"7">> >>

\* a call stands at the start of processModule for a module that is in
\* processedModules already
AtRepeatedCall ==
  /\ phase = "walking"
  /\ stack # <<>>
  /\ Top.pc = "enter"
  /\ Top.mod \in processedModules

\* C25: a module whose metadata has been read, a module a call for which is
\* past the check of its first lines, and a module for one of whose imports
\* a call has been made, is in processedModules; and a call for a module
\* that is in processedModules already returns at once: it reads no
\* metadata, makes no call, and leaves the RouteMap, processedModules and
\* the processing order as they are.
C25_VisitedBeforeReadAndRecursion ==
  /\ [](/\ \A m \in Modules :
            (m \in loaded \/ ctrlReads[m] > 0 \/ impReads[m] > 0)
              => m \in processedModules
        /\ \A d \in 1..Len(stack) :
            stack[d].pc # "enter" => stack[d].mod \in processedModules
        /\ \A call \in calls : call[1] \in processedModules)
  /\ [][AtRepeatedCall =>
          /\ stack' = SubSeq(stack, 1, Len(stack) - 1)
          /\ UNCHANGED <<routeMap, processedModules, order, loaded, ctrlReads,
                         impReads, calls, caught>>]_vars

\* module 2 imports the entry module back and itself: both calls have
\* returned at once, each module having been processed and read only once
C25_Witness ==
  /\ phase = "returned"
  /\ importsOf[1] = <<ClassRef(2)>>
  /\ importsOf[2] = <<ClassRef(1), ClassRef(2)>>
  /\ calls = {<<1, 2>>, <<2, 1>>, <<2, 2>>}
  /\ order = <<1, 2>>
  /\ ctrlReads[1] = 1 /\ ctrlReads[2] = 1
  /\ impReads[1] = 1 /\ impReads[2] = 1

\* the modules the extraction of one of whose controllers throws, once the
\* loop over their controllers has come to that controller
FailedAtController ==
  {m \in loaded :
     /\ faultOf[m].at = "controller"
     /\ ControllersOf(m)[faultOf[m].k].isClass
     /\ \A d \in 1..Len(stack) :
          stack[d].mod = m => ~(stack[d].pc = "controllers" /\ stack[d].ci <= faultOf[m].k)}

\* C28: when the extraction of the k-th entry of a module's controllers list
\* has thrown, the error was caught in the module's own call, the
\* controllers before it that have records are in the RouteMap with all of
\* them, no controller from the k-th on has a key, the module's 'imports'
\* metadata was not read and no call was made for any of its imports; the
\* failing step itself leaves the RouteMap as it is, and when discovery has
\* returned every controller with records of every processed module that
\* did not fail is in the RouteMap with all of them.
C28_FailureAmongControllers ==
  /\ [](/\ \A m \in FailedAtController :
            /\ m \in caught
            /\ \A j \in RouteControllers(m) : j < faultOf[m].k => Discovered(m, j)
            /\ \A j \in 1..Len(ControllersOf(m)) :
                 (j >= faultOf[m].k /\ ControllersOf(m)[j].isClass)
                   => ControllersOf(m)[j].name \notin MapKeys
            /\ impReads[m] = 0
            /\ NoCallFrom(m)
        /\ phase = "returned" =>
            \A m \in SeqToSet(order) \ caught :
              \A j \in RouteControllers(m) : Discovered(m, j))
  /\ [][caught' # caught => routeMap' = routeMap]_vars

\* the extraction of UsersController, second in the entry module's list,
\* threw: TestController is in the RouteMap with its three records, nothing
\* else is, and the import the entry module declares was not followed
C28_Witness ==
  /\ phase = "returned"
  /\ faultOf[EntryModule] = FaultAt("controller", 2)
  /\ caught = {EntryModule}
  /\ importsOf[EntryModule] = <<ClassRef(2)>>
  /\ Len(routeMap) = 1
  /\ routeMap[1].name = TestController.name
  /\ Len(routeMap[1].routes) = 3
  /\ order = <<EntryModule>>
  /\ calls = {}

(***************************************************************************)
(* Discovery called MaxRuns times in sequence on the same entry module     *)
(* with the same prefix: what a module declares and which of its metadata  *)
(* reads throw is the same in every call.                                  *)
(***************************************************************************)
RunPrefixInputs ==
  { Undefined, Lit(S_api),
    Lit(<<Slash>> \o S_api \o <<Slash>> \o S_v1 \o <<Slash>>) }

InitRuns ==
  /\ segs = <<Undefined, Undefined, Undefined>>
  /\ built = Undefined
  /\ prefix \in RunPrefixInputs
  /\ app = "test"
  /\ phase = "idle"
  /\ stack = <<>>
  /\ processedModules = {}
  /\ routeMap = <<>>
  /\ routeProto = ObjectPrototype
  /\ loaded = {}
  /\ importsOf = [m \in Modules |-> <<>>]
  /\ faultOf = [m \in Modules |-> NoFault]
  /\ ctrlReads = [m \in Modules |-> 0]
  /\ impReads = [m \in Modules |-> 0]
  /\ calls = {}
  /\ order = <<>>
  /\ caught = {}
  /\ steps = 0
  /\ runs = [left |-> MaxRuns - 1, previous |-> <<>>]
  /\ NoExtract
  /\ NoCli

SpecRuns == InitRuns /\ [][Next]_vars

\* C26: every call of discovery starts with an empty RouteMap and an empty
\* set of processed modules; a call made after another on the same entry
\* module and prefix returns a RouteMap equal to the one the call before
\* returned, having processed the same modules in the same order, each of
\* them again: it read the 'controllers' metadata of every one of them.
C26_RunsShareNothing ==
  /\ [][phase' = "walking" /\ phase # "walking" =>
          routeMap' = <<>> /\ processedModules' = {}]_vars
  /\ []((phase = "returned" /\ runs.previous # <<>>) =>
          LET before == runs.previous[Len(runs.previous)]
          IN  /\ routeMap = before.map
              /\ order = before.order
              /\ order # <<>>
              /\ processedModules = SeqToSet(order)
              /\ \A m \in SeqToSet(order) : ctrlReads[m] = 1)

\* discovery has returned a second time from a graph with a cycle, with the
\* same three keys and the same three modules processed as the first time
C26_Witness ==
  /\ phase = "returned"
  /\ runs.left = 0
  /\ Len(runs.previous) = 1
  /\ importsOf[1] = <<ClassRef(2)>>
  /\ importsOf[2] = <<ClassRef(3), ClassRef(1)>>
  /\ FaultsUsed = 0
  /\ order = <<1, 2, 3>>
  /\ runs.previous[1].order = <<1, 2, 3>>
  /\ Len(routeMap) = 4
  /\ runs.previous[1].map = routeMap

\* the prefix holds a character other than '/'
HasNonSlash(p) == p.present /\ \E i \in 1..Len(p.s) : p.s[i] # Slash

\* C29: when the prefix holds at least one character other than '/', the
\* path of every record in the RouteMap, whatever the depth of the module
\* it comes from, is the normalized prefix or begins with the normalized
\* prefix followed by '/'.
C29_PrefixOnEveryPath ==
  HasNonSlash(prefix) =>
    LET normalized == SpecNormalize(prefix, Undefined, Undefined)
    IN  \A i \in 1..Len(routeMap) :
          \A k \in 1..Len(routeMap[i].routes) :
            \/ routeMap[i].routes[k].path = normalized
            \/ StartsWith(routeMap[i].routes[k].path, normalized \o <<Slash>>)

\* with the prefix '/api/v1/', the route of the controller of module 3,
\* imported by module 2, is in the RouteMap under '/api/v1/m3/list', and
\* the route of TestController at the root under '/api/v1'
C29_Witness ==
  /\ phase = "returned"
  /\ prefix = Lit(<<Slash>> \o S_api \o <<Slash>> \o S_v1 \o <<Slash>>)
  /\ importsOf[1] = <<ClassRef(2)>>
  /\ importsOf[2] = <<ClassRef(3)>>
  /\ FeatureController(3).name \in MapKeys
  /\ RoutesUnder(FeatureController(3).name)[1].path
       = <<Slash>> \o S_api \o <<Slash>> \o S_v1 \o <<Slash, "m", "3", Slash, "l", "i", "s", "t">>
  /\ \E k \in 1..Len(RoutesUnder(TestController.name)) :
       RoutesUnder(TestController.name)[k].path = <<Slash>> \o S_api \o <<Slash>> \o S_v1

\* C30: the path buildRoutePath has returned for any three segments, given
\* back to buildRoutePath as the only segment that is not absent, as the
\* prefix, as the base path or as the route path, comes back unchanged.
C30_NormalizationIdempotent ==
  built.present =>
    /\ buildRoutePath(built, Undefined, Undefined) = built.s
    /\ buildRoutePath(Undefined, built, Undefined) = built.s
    /\ buildRoutePath(Undefined, Undefined, built) = built.s

\* the path built from 'api/', '/v1/' and '/users' is '/api/v1/users'
C30_Witness ==
  /\ segs = <<Lit(S_api \o <<Slash>>), Lit(<<Slash>> \o S_v1 \o <<Slash>>),
              Lit(<<Slash>> \o S_users)>>
  /\ built = Lit(<<Slash>> \o S_api \o <<Slash>> \o S_v1 \o <<Slash>> \o S_users)
  /\ buildRoutePath(Undefined, built, Undefined) = built.s

====
